---- MODULE Spec2Model ----
(***************************************************************************)
(* Embedding store and similarity search of main.py and 9_agno_qa.py.      *)
(*                                                                         *)
(* The specifications of this module:                                      *)
(*   SpecSearch   find_most_similar as a function of its arguments;        *)
(*   SpecContent  load_content as a function of the content file;          *)
(*   SpecStore    save_embeddings, load_embeddings and answer_question     *)
(*                called with any arguments;                               *)
(*   Spec         the programs: main()'s load-or-build branch, the build   *)
(*                request by request, the save write by write, and the     *)
(*                query paths answer_question / get_relevant_context;      *)
(*   SpecRebuild  the build path while the content source is edited and    *)
(*                the artifact deleted between runs;                       *)
(*   SpecEnviron  the programs while EMBEDDING_MODEL changes.              *)
(*                                                                         *)
(* Numbers.  Vector components are small integers.  A cosine score         *)
(* dot/(|e|*|q|) is kept exactly, as the sign of the dot product and the   *)
(* fraction dot^2/(|e|^2*|q|^2); a zero denominator is the IEEE 0/0, NaN.  *)
(* Scores that are equal here may differ in the last bit in floating       *)
(* point; the order np.argsort gives such records is a free choice in the  *)
(* model either way (see ArgsortResults).                                  *)
(***************************************************************************)
EXTENDS Integers, Sequences, FiniteSets, TLC

\* ------------------------------------------------------------- bounds
\* Largest number of stored records.
MaxN == 3
\* Largest top_k passed to find_most_similar.
MaxK == 4

\* Components of the vectors the inputs are drawn from.
Comp == {-1, 0, 1}
\* Two-dimensional vectors; <<0, 0>> is the zero-norm vector.
Vectors == {<<x, y>> : x \in Comp, y \in Comp}

\* A Python str is the sequence of its pieces: a piece is one whitespace
\* character or a run of text that neither begins nor ends with whitespace.
\* Str(s) is the string of the one piece s.
Str(s) == <<s>>

\* The text stored at each index (the first two are the spec's scenario).
TextLabels ==
  <<Str("Microsoft invests $80B in AI"), Str("Nvidia GPUs power AI training"),
    Str("text 3"), Str("text 4"), Str("text 5")>>

\* ---------------------------------------------------- sequence helpers
RECURSIVE SumSeq(_)
SumSeq(s) == IF s = <<>> THEN 0 ELSE Head(s) + SumSeq(Tail(s))

\* All sequences over S of length 0..n.
SeqsUpTo(S, n) == UNION {[1..m -> S] : m \in 0..n}

\* The permutations of 1..n, as sequences.
Perms(n) == {p \in [1..n -> 1..n] : \A i, j \in 1..n : i # j => p[i] # p[j]}

Min(a, b) == IF a < b THEN a ELSE b

\* ------------------------------------------------------ numpy arithmetic
\* np.dot of two vectors of one length.
Dot(a, b) == SumSeq([j \in 1..Len(a) |-> a[j] * b[j]])

\* np.linalg.norm, squared.
NormSq(a) == Dot(a, a)

Sign(x) == IF x > 0 THEN 1 ELSE IF x < 0 THEN -1 ELSE 0

\* One element of `similarities`: dot / (norm_e * norm_q).  numpy divides
\* 0.0 by 0.0 to NaN (with a RuntimeWarning, no exception).
Similarity(e, q) ==
  IF NormSq(e) * NormSq(q) = 0
  THEN [nan |-> TRUE, sgn |-> 0, num |-> 0, den |-> 1]
  ELSE [nan |-> FALSE, sgn |-> Sign(Dot(e, q)),
        num |-> Dot(e, q) * Dot(e, q), den |-> NormSq(e) * NormSq(q)]

IsNaN(s) == s.nan

\* IEEE comparisons of two scores: every comparison with NaN is false.
FloatLt(a, b) ==
  /\ ~a.nan
  /\ ~b.nan
  /\ a.sgn * a.num * b.den < b.sgn * b.num * a.den

FloatEq(a, b) ==
  /\ ~a.nan
  /\ ~b.nan
  /\ a.sgn * a.num * b.den = b.sgn * b.num * a.den

FloatLe(a, b) == FloatLt(a, b) \/ FloatEq(a, b)

\* The order np.sort / np.argsort use: ascending, NaN after every number.
SortsBefore(a, b) == IF a.nan THEN FALSE ELSE IF b.nan THEN TRUE ELSE FloatLt(a, b)

\* ---------------------------------------------------- find_most_similar
\* Record indices are 1..N here; Python's index i is i+1.

\* np.array(embeddings) is a 2-D float array only if every row has one length.
Ragged(embeddings) ==
  \E i, j \in 1..Len(embeddings) : Len(embeddings[i]) # Len(embeddings[j])

\* np.dot(embeddings_array, query_array) / (norms * norm) raises instead of
\* producing `similarities`: a ragged or empty list gives no N x D array
\* (np.dot / norm(axis=1) fail), and D must be the query's length.
SimilaritiesRaise(query_embedding, embeddings) ==
  \/ Len(embeddings) = 0
  \/ Ragged(embeddings)
  \/ Len(embeddings[1]) # Len(query_embedding)

\* similarities: one score per stored vector.
Similarities(query_embedding, embeddings) ==
  [i \in 1..Len(embeddings) |-> Similarity(embeddings[i], query_embedding)]

\* np.argsort(similarities): an index order that sorts the scores ascending,
\* NaN last.  The default kind is not stable, so the order of equal scores
\* (and of NaNs) is whichever the build's sort produces.
ArgsortResults(similarities) ==
  {p \in Perms(Len(similarities)) :
     \A a, b \in 1..Len(similarities) :
        a < b => ~SortsBefore(similarities[p[b]], similarities[p[a]])}

\* A mutation of TopSlice: order[:top_k], the first entries.
TopSliceFirst(order, top_k) == SubSeq(order, 1, Min(top_k, Len(order)))

\* order[-top_k:].  Python reads -0 as 0, so top_k = 0 is order[0:], the
\* whole array; top_k >= len gives the whole array too.
TopSlice(order, top_k) ==
  IF top_k = 0 \/ top_k >= Len(order)
  THEN order
  ELSE SubSeq(order, Len(order) - top_k + 1, Len(order))

NoScores == <<>>

\* What one call can do: raise, or return [texts[i] for i in top_indices].
\* texts[i] raises IndexError for an index past the end of texts.
FindMostSimilarOutcomes(query_embedding, embeddings, texts, top_k) ==
  IF SimilaritiesRaise(query_embedding, embeddings)
  THEN {[status |-> "raised", exc |-> "ValueError", similarities |-> NoScores,
         top_indices |-> <<>>, result |-> <<>>]}
  ELSE LET similarities == Similarities(query_embedding, embeddings)
       IN  {LET top_indices == TopSlice(order, top_k)
            IN  IF \E j \in 1..Len(top_indices) : top_indices[j] > Len(texts)
                THEN [status |-> "raised", exc |-> "IndexError",
                      similarities |-> similarities,
                      top_indices |-> top_indices, result |-> <<>>]
                ELSE [status |-> "returned", exc |-> "none",
                      similarities |-> similarities,
                      top_indices |-> top_indices,
                      result |-> [j \in 1..Len(top_indices) |-> texts[top_indices[j]]]]
            : order \in ArgsortResults(similarities)}

\* ------------------------------------------------- json.dump / json.load
\* The artifact's text is a sequence of JSON tokens; the "," and ":" between
\* them carry nothing and are left out.
Tok(k, str, num) == [k |-> k, s |-> str, n |-> num]
Punct(k) == Tok(k, "", 0)
StrTok(str) == Tok("str", str, 0)
NumTok(num) == Tok("num", "", num)

RECURSIVE Flatten(_)
Flatten(ss) == IF ss = <<>> THEN <<>> ELSE Head(ss) \o Flatten(Tail(ss))

DumpStrList(strs) ==
  <<Punct("[")>> \o [j \in 1..Len(strs) |-> StrTok(strs[j])] \o <<Punct("]")>>

DumpNumList(nums) ==
  <<Punct("[")>> \o [j \in 1..Len(nums) |-> NumTok(nums[j])] \o <<Punct("]")>>

DumpVecList(vecs) ==
  <<Punct("[")>> \o Flatten([j \in 1..Len(vecs) |-> DumpNumList(vecs[j])])
                 \o <<Punct("]")>>

\* json.dump({"texts": texts, "embeddings": embeddings}, f): the document.
JsonDump(txts, embs) ==
  <<Punct("{"), StrTok("texts")>> \o DumpStrList(txts)
     \o <<StrTok("embeddings")>> \o DumpVecList(embs) \o <<Punct("}")>>

StoreOf(txts, embs) == [texts |-> txts, embeddings |-> embs]
EmptyStore == StoreOf(<<>>, <<>>)

ParseFail == [ok |-> FALSE, val |-> <<>>, rest |-> <<>>]

\* The items of a list of strings up to its "]", the "[" already read.
RECURSIVE LoadStrItems(_, _)
LoadStrItems(toks, acc) ==
  IF toks = <<>> THEN ParseFail
  ELSE IF Head(toks).k = "]" THEN [ok |-> TRUE, val |-> acc, rest |-> Tail(toks)]
  ELSE IF Head(toks).k = "str"
       THEN LoadStrItems(Tail(toks), Append(acc, Head(toks).s))
  ELSE ParseFail

\* The items of a list of numbers up to its "]".
RECURSIVE LoadNumItems(_, _)
LoadNumItems(toks, acc) ==
  IF toks = <<>> THEN ParseFail
  ELSE IF Head(toks).k = "]" THEN [ok |-> TRUE, val |-> acc, rest |-> Tail(toks)]
  ELSE IF Head(toks).k = "num"
       THEN LoadNumItems(Tail(toks), Append(acc, Head(toks).n))
  ELSE ParseFail

\* The items of a list of lists of numbers up to its "]".
RECURSIVE LoadVecItems(_, _)
LoadVecItems(toks, acc) ==
  IF toks = <<>> THEN ParseFail
  ELSE IF Head(toks).k = "]" THEN [ok |-> TRUE, val |-> acc, rest |-> Tail(toks)]
  ELSE IF Head(toks).k = "["
       THEN LET v == LoadNumItems(Tail(toks), <<>>)
            IN  IF v.ok THEN LoadVecItems(v.rest, Append(acc, v.val)) ELSE ParseFail
  ELSE ParseFail

\* toks without its first token when that token is t, else the failure.
Skip(toks, t) ==
  IF toks # <<>> /\ Head(toks) = t
  THEN [ok |-> TRUE, val |-> <<>>, rest |-> Tail(toks)]
  ELSE ParseFail

\* json.load(f) on the documents save_embeddings writes and on their
\* prefixes: the parsed {"texts": ..., "embeddings": ...}, or the failure
\* (JSONDecodeError) when the text is empty, is cut short or goes on after
\* the closing brace.  Nothing about the lists' shapes is checked.
JsonLoad(toks) ==
  LET a == Skip(toks, Punct("{"))
      b == IF a.ok THEN Skip(a.rest, StrTok("texts")) ELSE ParseFail
      c == IF b.ok THEN Skip(b.rest, Punct("[")) ELSE ParseFail
      t == IF c.ok THEN LoadStrItems(c.rest, <<>>) ELSE ParseFail
      d == IF t.ok THEN Skip(t.rest, StrTok("embeddings")) ELSE ParseFail
      e == IF d.ok THEN Skip(d.rest, Punct("[")) ELSE ParseFail
      v == IF e.ok THEN LoadVecItems(e.rest, <<>>) ELSE ParseFail
      z == IF v.ok THEN Skip(v.rest, Punct("}")) ELSE ParseFail
  IN  IF z.ok /\ z.rest = <<>>
      THEN [ok |-> TRUE, val |-> StoreOf(t.val, v.val)]
      ELSE [ok |-> FALSE, val |-> EmptyStore]

\* The shape the spec requires of a store: as many vectors as texts, all
\* vectors of one length.
WellShaped(store) ==
  /\ Len(store.texts) = Len(store.embeddings)
  /\ ~Ragged(store.embeddings)

\* ------------------------------------------------------- load_content
\* The characters str.strip() removes and the one that ends a line.
Whitespace == {" ", "\n"}

\* Length of the first line of a text, its "\n" included.
RECURSIVE FirstLineLen(_)
FirstLineLen(chars) ==
  IF chars = <<>> THEN 0
  ELSE IF Head(chars) = "\n" THEN 1
  ELSE 1 + FirstLineLen(Tail(chars))

\* `for line in f`: the lines of the file, each with its "\n" (the last
\* line has none when the file does not end in one).
RECURSIVE SplitLines(_)
SplitLines(chars) ==
  IF chars = <<>> THEN <<>>
  ELSE <<SubSeq(chars, 1, FirstLineLen(chars))>>
         \o SplitLines(SubSeq(chars, FirstLineLen(chars) + 1, Len(chars)))

RECURSIVE LStrip(_)
LStrip(line) ==
  IF line # <<>> /\ Head(line) \in Whitespace THEN LStrip(Tail(line)) ELSE line

RECURSIVE RStrip(_)
RStrip(line) ==
  IF line # <<>> /\ line[Len(line)] \in Whitespace
  THEN RStrip(SubSeq(line, 1, Len(line) - 1))
  ELSE line

\* A mutation of Strip: only the leading whitespace is removed.
StripLeft(line) == LStrip(line)

\* line.strip()
Strip(line) == RStrip(LStrip(line))

\* [line.strip() for line in lines if line.strip()]
RECURSIVE SelectNonBlank(_)
SelectNonBlank(lines) ==
  IF lines = <<>> THEN <<>>
  ELSE IF Strip(Head(lines)) # <<>>
       THEN <<Strip(Head(lines))>> \o SelectNonBlank(Tail(lines))
       ELSE SelectNonBlank(Tail(lines))

\* load_content() on a file of the given text.
LoadContent(chars) == SelectNonBlank(SplitLines(chars))

\* content_data/content.txt as the programs find it: two texts, with
\* trailing and leading blanks, a blank line and a last line of blanks only.
ContentFile ==
  TextLabels[1] \o <<" ", "\n", "\n", " ">> \o TextLabels[2] \o <<"\n", " ">>

\* The file after an edit: the first text gone, a new one added.
ContentFileEdited ==
  TextLabels[2] \o <<"\n">> \o TextLabels[3] \o <<"\n">>

\* --------------------------------------------------------------- state
VARIABLES
  query_embedding,  \* find_most_similar's arguments ...
  embeddings,
  texts,
  top_k,
  outcome,          \* ... and what the call did ("pending" before it)
  artifact,         \* the file embedding_data/embedding.json
  saving,           \* the save_embeddings call under way, or the last one
  stored_data,      \* 9_agno_qa.py's module-level stored_data
  last,             \* the most recent call and what it did
  content,          \* the text of content_data/content.txt
  environ,          \* os.environ's EMBEDDING_MODEL
  started_with,     \* the model identifier in force when the process started
  build,            \* main()'s build branch under way, or the last one
  first_run,        \* history: the artifact the first completed build left
  threads,          \* the get_relevant_context call of each thread
  session_state,    \* the workflow's session_state
  run,              \* the generator of the workflow's run() call
  reports,          \* the files under sqlite_data/reports
  PRODUCT_DATABASE, \* agno_hardcoded_workflow.py's product table
  ORDER_DATABASE,   \* ... and its order table
  now,              \* the clock, in whole seconds
  confirmations,    \* history: the number of "Order confirmed!" returns
  tool_call,        \* the most recent tool call and what it returned
  MARKET_DATA,      \* 10_agno_goal_memory.py's daily_change of each company
  daily_update      \* the most recent simulate_daily_update call

searchVars == <<query_embedding, embeddings, texts, top_k, outcome>>
storeVars == <<artifact, saving, stored_data, last>>
worldVars == <<content, environ>>
buildVars == <<started_with, build, first_run>>
\* The variables of the other programs and of the concurrent queries.
orderVars == <<PRODUCT_DATABASE, ORDER_DATABASE, now, confirmations, tool_call>>
marketVars == <<MARKET_DATA, daily_update>>
asideVars == <<threads, session_state, run, reports, orderVars, marketVars>>
vars == <<query_embedding, embeddings, texts, top_k, outcome,
          artifact, saving, stored_data, last,
          content, environ, started_with, build, first_run,
          threads, session_state, run, reports,
          PRODUCT_DATABASE, ORDER_DATABASE, now, confirmations, tool_call,
          MARKET_DATA, daily_update>>

Pending ==
  [status |-> "pending", exc |-> "none", similarities |-> NoScores,
   top_indices |-> <<>>, result |-> <<>>]

\* No artifact on disk.
Absent == [exists |-> FALSE, content |-> <<>>]

\* No save_embeddings call yet.
NoSave ==
  [phase |-> "idle", caller |-> "none", texts |-> <<>>, embeddings |-> <<>>,
   rest |-> <<>>, shrinks |-> FALSE]

\* stored_data = None.
None == [loaded |-> FALSE, store |-> EmptyStore]

\* The positions of a search's result that hold a highest score: the score
\* there is a number and no record of the store has a greater one.
BestPositions(o) ==
  {j \in 1..Len(o.top_indices) :
     /\ ~IsNaN(o.similarities[o.top_indices[j]])
     /\ \A i \in 1..Len(o.similarities) :
          ~FloatLt(o.similarities[o.top_indices[j]], o.similarities[i])}

\* What is kept of a find_most_similar call made by a query: how it ended,
\* the texts it returned and where the most similar ones are among them.
Searched(o) ==
  [status |-> o.status, result |-> o.result, best |-> BestPositions(o)]

NoSearch == [status |-> "pending", result |-> <<>>, best |-> {}]

\* What a query did: the model its embedding request carried, how the
\* request ended ("none" when none was made), what find_most_similar did,
\* and whether the completion request was made.
Asked(model, embedding, search, completion) ==
  [model |-> model, embedding |-> embedding, search |-> search,
   completion |-> completion]

NoAsk == Asked("none", "none", NoSearch, FALSE)

\* The record of a call: the operation, how it ended ("returned", "raised",
\* or "running" for a call under way), the exception, whether the artifact
\* was on disk when the call began, whether find_most_similar was invoked,
\* the store the call loaded or used, the context string it built, and,
\* for a query, what it asked of the provider and of the search.
Call(op, status, exc, present, searched, store, context) ==
  [op |-> op, status |-> status, exc |-> exc, present |-> present,
   searched |-> searched, store |-> store, context |-> context,
   asked |-> NoAsk]

\* The record of a query.
Query(call, asked) == [call EXCEPT !.asked = asked]

NoCall == Call("none", "returned", "none", FALSE, FALSE, EmptyStore, <<>>)

\* EMBEDDING_MODEL is not set.
Unset == "unset"

\* The values os.environ holds for EMBEDDING_MODEL.
EnvironValues == {Unset, "text-embedding-3-large"}

\* os.getenv("EMBEDDING_MODEL", "text-embedding-3-small")
EmbeddingModel(env) == IF env = Unset THEN "text-embedding-3-small" ELSE env

\* One embeddings.create(model=model, input=input) of the build: sent, then
\* answered with a vector or failed.
Request(input, model) ==
  [input |-> input, model |-> model, state |-> "sent", vector |-> <<>>]

\* A mutation of NewList: the first vector of the call before stays in.
StaleList(previous) == SubSeq(previous, 1, Min(1, Len(previous)))

\* embeddings = []: every call of create_embeddings starts with a new empty
\* list, whatever the list of the call before held.
NewList(previous) == <<>>

\* main()'s build branch: the texts load_content returned, the model
\* create_embeddings read, the requests made so far and the vectors
\* appended so far.  The phases: "idle" (no build yet), "unread"
\* (load_content raised), "embedding" (in the loop, between requests),
\* "waiting" (inside embeddings.create), "failed" (a request raised),
\* "saving", "built" (save_embeddings returned), "unsaved" (the save failed).
Build(op, phase, txts, model, embs) ==
  [op |-> op, phase |-> phase, texts |-> txts, model |-> model,
   requests |-> <<>>, embeddings |-> embs]

NoBuild == Build("none", "idle", <<>>, "none", <<>>)

\* No build has completed yet, the content source has not been edited.
NoRun == [done |-> FALSE, unchanged |-> TRUE, document |-> <<>>, rebuilt |-> FALSE]

\* ---------------------- state of 8_agno_workflow.py's AIInvestmentWorkflow
\* The topics run() is called with; a topic is the sequence of its pieces,
\* words and the characters between them.
Topics == {<<"spending", " ", "trends">>, <<"risks">>}

\* A dict is the sequence of its (key, value) pairs in insertion order;
\* {} is the empty sequence.
EmptyDict == <<>>

\* results = {"research": ..., "analysis": ..., "summary": ...}
ResultsDict(research, analysis, summary) ==
  <<<<"research", research>>, <<"analysis", analysis>>, <<"summary", summary>>>>

\* What dict.get(topic) gives: the value under the key, or None.
Entry(value) == [has |-> TRUE, value |-> value]
NoEntry == [has |-> FALSE, value |-> EmptyDict]

\* `if cached_results:` -- None and {} are false, a dict with a key is true.
Truthy(entry) == entry.has /\ entry.value # EmptyDict

\* session_state of a new session: no "results" key.
NewSession == [has_results |-> FALSE, results |-> [topic \in Topics |-> NoEntry]]

\* The three files of a topic's report.
ReportKinds == {"research", "analysis", "summary"}

RECURSIVE ReplaceSpace(_)
\* topic.replace(' ', '_')
ReplaceSpace(topic) ==
  IF topic = <<>> THEN <<>>
  ELSE <<IF Head(topic) = " " THEN "_" ELSE Head(topic)>> \o ReplaceSpace(Tail(topic))

\* f"sqlite_data/reports/{topic.replace(' ', '_')}_research.md" and the
\* other two.
ReportPath(topic, kind) ==
  <<"sqlite_data/reports/">> \o ReplaceSpace(topic) \o <<"_", kind, ".md">>

ReportPaths == {ReportPath(topic, kind) : topic \in Topics, kind \in ReportKinds}

\* A report file that was never written, and one that holds a text.
NoReport == [exists |-> FALSE, content |-> ""]
Report(text) == [exists |-> TRUE, content |-> text]

\* One RunResponse run() yields: the event, and the content, which is a
\* message or, for run_completed, the results dict.
Event(event, message, results) ==
  [event |-> event, message |-> message, results |-> results]

\* The generator run(topic, use_cache) returns: where it is suspended or how
\* it ended, the responses it has yielded, the agents it has run, and its
\* locals research_findings, analysis and summary ("" while unassigned).
\* pc: "idle" (no call yet), "called" (created, not started), "hit",
\* "research", "analysis", "summary", "summarized", "completed", "error"
\* (suspended at the yield of that name), "done" (returned), "raised"; and
\* "saved" for a direct call of save_results_to_cache in place of a run.
\* before is the call made before this one (see Before).
\* No call came before.
NoBefore ==
  [topic |-> <<>>, use_cache |-> FALSE, hit |-> FALSE, ended |-> "none",
   results |-> EmptyDict]

Generator(pc, topic, use_cache) ==
  [pc |-> pc, topic |-> topic, use_cache |-> use_cache, events |-> <<>>,
   agents |-> <<>>, research_findings |-> "", analysis |-> "", summary |-> "",
   before |-> NoBefore]

NoGenerator == Generator("idle", <<>>, TRUE)

\* ------------------------- state of agno_hardcoded_workflow.py's tables
\* Largest number of confirmed orders, and the last second of the clock.
MaxOrders == 3
MaxSeconds == 1

\* PRODUCT_DATABASE as the module defines it: for each product id its price
\* (in cents), category and stock; name and description are never tested.
Product(price, category, stock) ==
  [price |-> price, category |-> category, stock |-> stock]

InitialProducts ==
  (Str("laptop-ai-pro") :> Product(129999, "Computers", 15))
    @@ (Str("smart-assistant") :> Product(12999, "Smart Home", 45))
    @@ (Str("ai-camera") :> Product(19999, "Security", 28))
    @@ (Str("ml-toolkit") :> Product(29999, "Software", 0))
    @@ (Str("neural-headphones") :> Product(24999, "Audio", 12))

\* An entry of ORDER_DATABASE, and the place of an order id with no entry.
Order(product_id, quantity, customer_email, total_price) ==
  [placed |-> TRUE, product_id |-> product_id, quantity |-> quantity,
   customer_email |-> customer_email, total_price |-> total_price,
   status |-> "confirmed"]

NoOrder ==
  [placed |-> FALSE, product_id |-> <<>>, quantity |-> 0,
   customer_email |-> "", total_price |-> 0, status |-> ""]

\* int(time.time()), counted from the second the module was imported.
Seconds == 0..MaxSeconds

\* f"ORD-{int(time.time())}"
OrderId(second) == <<"ORD-", second>>

OrderIds == {OrderId(second) : second \in Seconds}

\* What a tool returned: the tool, the kind of message, the product id it
\* looked up, the quantity in the message, the order id of a confirmation
\* and the products a search found.
ToolCall(tool, kind, product_id, quantity, order_id, matches) ==
  [tool |-> tool, kind |-> kind, product_id |-> product_id,
   quantity |-> quantity, order_id |-> order_id, matches |-> matches]

NoToolCall == ToolCall("none", "none", <<>>, 0, <<>>, {})

\* ------------------------------- state of 10_agno_goal_memory.py's update
\* The day numbers simulate_daily_update is called with: -MaxDay..MaxDay.
MaxDay == 60

\* The keys of MARKET_DATA in the order the module defines them; a company
\* id is its first letter and the rest.
MarketCompanies ==
  <<<<"m", "icrosoft">>, <<"a", "lphabet">>, <<"a", "mazon">>, <<"m", "eta">>>>

\* Percentages are kept in hundredths: 1.2 is 120.  daily_change of each
\* company as the module defines it.
InitialDailyChange == <<120, 80, -50, 210>>

\* What a simulate_daily_update call did: its day_number, the companies of
\* significant_changes and the prompt given to the agent ("plain" for the
\* one that names no company, "significant" for the one that lists some).
DailyUpdate(day_number, significant_changes, prompt) ==
  [day_number |-> day_number, significant_changes |-> significant_changes,
   prompt |-> prompt]

NoDailyUpdate == DailyUpdate(0, <<>>, "none")

\* Largest number of threads that call get_relevant_context at one time.
MaxThreads == 2

Threads == 1..MaxThreads

\* A thread's get_relevant_context call: where it is ("idle" before the
\* first call, "waiting" inside embeddings.create, "embedded" with the
\* query's vector, "scored" with top_indices computed, then "returned" or
\* "raised"), the store stored_data held when the call began, the query's
\* vector, top_indices, the exception and the string returned.
Thread(phase, index, query, top_indices, exc, context) ==
  [phase |-> phase, index |-> index, query |-> query,
   top_indices |-> top_indices, exc |-> exc, context |-> context]

NoThread == Thread("idle", EmptyStore, <<>>, <<>>, "none", <<>>)

\* Nothing of the other programs has run, no thread has called.
InitAside ==
  /\ threads = [t \in Threads |-> NoThread]
  /\ session_state = NewSession
  /\ run = NoGenerator
  /\ reports = [path \in ReportPaths |-> NoReport]
  /\ PRODUCT_DATABASE = InitialProducts
  /\ ORDER_DATABASE = [order_id \in OrderIds |-> NoOrder]
  /\ now = 0
  /\ confirmations = 0
  /\ tool_call = NoToolCall
  /\ MARKET_DATA = InitialDailyChange
  /\ daily_update = NoDailyUpdate

InitStore ==
  /\ InitAside
  /\ artifact = Absent
  /\ saving = NoSave
  /\ stored_data = None
  /\ last = NoCall
  /\ content = ContentFile
  /\ environ = Unset
  /\ started_with = EmbeddingModel(Unset)
  /\ build = NoBuild
  /\ first_run = NoRun

\* The arguments: an aligned store of 0..MaxN records, a query of the
\* store's dimension and a top_k.
InitSearch ==
  /\ \E n \in 0..MaxN :
       /\ embeddings \in [1..n -> Vectors]
       /\ texts = SubSeq(TextLabels, 1, n)
  /\ query_embedding \in Vectors
  /\ top_k \in 0..MaxK
  /\ outcome = Pending
  /\ InitStore

\* The call find_most_similar(query_embedding, embeddings, texts, top_k).
FindMostSimilar ==
  /\ outcome.status = "pending"
  /\ outcome' \in FindMostSimilarOutcomes(query_embedding, embeddings, texts, top_k)
  /\ UNCHANGED <<query_embedding, embeddings, texts, top_k>>
  /\ UNCHANGED <<storeVars, asideVars>>
  /\ UNCHANGED <<worldVars, buildVars>>

NextSearch == FindMostSimilar

SpecSearch == InitSearch /\ [][NextSearch]_vars

\* ------------------------------------------------------ the environment
\* Largest number of texts, and of vectors, passed to save_embeddings.
MaxRecords == 2

\* top_k's default, used by both query paths.
DefaultTopK == 3

\* What save_embeddings is called with: any list of texts and any list of
\* vectors (the function checks neither lengths nor dimensions).
VectorPool == {<<1, 0>>, <<0, 1>>, <<1>>}
SaveTexts == {SubSeq(TextLabels, 1, n) : n \in 0..MaxRecords}
SaveVectors == SeqsUpTo(VectorPool, MaxRecords)

\* The vectors the embedding provider answers a question with.
QueryPool == {<<1, 0>>, <<0, 1>>, <<0, 0>>}

\* The provider's vector for a text (a deterministic stand-in for the
\* embedding model).
ProviderEmbedding(text) ==
  IF text = TextLabels[1] THEN <<1, 0>>
  ELSE IF text = TextLabels[2] THEN <<0, 1>>
  ELSE <<1, 1>>

\* create_embeddings(texts) when no request fails: one vector per text, in
\* the order of texts.
CreateEmbeddings(txts) == [i \in 1..Len(txts) |-> ProviderEmbedding(txts[i])]

\* What the provider does with one embedding request.
Response(failed, vector) == [failed |-> failed, vector |-> vector]

\* ... of the build, for a text: a failure, or the text's vector.
TextResponses(text) ==
  {Response(TRUE, <<>>), Response(FALSE, ProviderEmbedding(text))}

\* ... of a query, for a question: a failure, or some vector.
QuestionResponses ==
  {Response(TRUE, <<>>)} \cup {Response(FALSE, q) : q \in QueryPool}

\* A mutation of Raises: a failed request is taken for an answer.
RaisesNever(response) == FALSE

\* embedding_client.embeddings.create raises when the request fails; nothing
\* around the call catches the exception.
Raises(response) == response.failed

\* How a request that got the response ended.
StateOf(response) == IF response.failed THEN "failed" ELSE "answered"

\* ------------------------------------------- save_embeddings, step by step
\* A mutation of OpenForWrite: mode "a", the old text is kept.
OpenForAppend(file) == [exists |-> TRUE, content |-> file.content]

\* open("embedding_data/embedding.json", "w"): the file is created, or cut
\* to length 0, before anything is written.
OpenForWrite(file) == [exists |-> TRUE, content |-> <<>>]

\* save_embeddings(texts, embeddings) up to and including its open().
\* saving.shrinks notes that the file held more than the new document.
SaveBegin(caller, txts, embs) ==
  /\ saving.phase # "open"
  /\ artifact' = OpenForWrite(artifact)
  /\ saving' = [phase |-> "open", caller |-> caller, texts |-> txts,
                embeddings |-> embs, rest |-> JsonDump(txts, embs),
                shrinks |-> Len(artifact.content) > Len(JsonDump(txts, embs))]
  /\ last' = Call("save_embeddings", "running", "none", artifact.exists, FALSE,
                  StoreOf(txts, embs), <<>>)

\* A direct call of save_embeddings.
SaveEmbeddings ==
  /\ \E txts \in SaveTexts, embs \in SaveVectors : SaveBegin("api", txts, embs)
  /\ UNCHANGED stored_data
  /\ UNCHANGED <<searchVars, asideVars>>
  /\ UNCHANGED <<worldVars, buildVars>>

\* json.dump writes the document piece by piece; the next piece reaches the
\* file.
SaveWrite ==
  /\ saving.phase = "open"
  /\ saving.rest # <<>>
  /\ artifact' = [artifact EXCEPT !.content = Append(@, Head(saving.rest))]
  /\ saving' = [saving EXCEPT !.rest = Tail(@)]
  /\ UNCHANGED <<stored_data, last>>
  /\ UNCHANGED <<searchVars, asideVars>>
  /\ UNCHANGED <<worldVars, buildVars>>

\* The save was called by main()'s build branch.
ByBuild == saving.caller \in {"main", "qa_main"}

\* The with-block closes the file and save_embeddings returns.  In
\* 9_agno_qa.py's main() the next statement sets stored_data to what was saved.
SaveClose ==
  /\ saving.phase = "open"
  /\ saving.rest = <<>>
  /\ saving' = [saving EXCEPT !.phase = "returned"]
  /\ last' = Call("save_embeddings", "returned", "none", TRUE, FALSE,
                  StoreOf(saving.texts, saving.embeddings), <<>>)
  /\ stored_data' =
       IF saving.caller = "qa_main"
       THEN [loaded |-> TRUE, store |-> StoreOf(saving.texts, saving.embeddings)]
       ELSE stored_data
  /\ build' = IF ByBuild THEN [build EXCEPT !.phase = "built"] ELSE build
  /\ first_run' =
       IF ~ByBuild THEN first_run
       ELSE IF ~first_run.done
            THEN [first_run EXCEPT !.done = TRUE, !.document = artifact.content]
            ELSE [first_run EXCEPT !.rebuilt = TRUE]
  /\ UNCHANGED <<artifact, started_with>>
  /\ UNCHANGED <<searchVars, asideVars>>
  /\ UNCHANGED worldVars

\* The process dies, or a write raises, inside save_embeddings: the file
\* keeps what had reached it.
SaveFail ==
  /\ saving.phase = "open"
  /\ saving' = [saving EXCEPT !.phase = "failed"]
  /\ last' = Call("save_embeddings", "raised", "OSError", TRUE, FALSE,
                  StoreOf(saving.texts, saving.embeddings), <<>>)
  /\ build' = IF ByBuild THEN [build EXCEPT !.phase = "unsaved"] ELSE build
  /\ UNCHANGED <<artifact, stored_data, started_with, first_run>>
  /\ UNCHANGED <<searchVars, asideVars>>
  /\ UNCHANGED worldVars

\* ------------------------------------------------------ load_embeddings
\* A mutation of LoadEmbeddingsResult: a missing or unreadable artifact
\* loads as an empty store.
LoadEmbeddingsLenient(file) ==
  IF file.exists /\ JsonLoad(file.content).ok
  THEN [status |-> "returned", exc |-> "none", store |-> JsonLoad(file.content).val]
  ELSE [status |-> "returned", exc |-> "none", store |-> EmptyStore]

\* load_embeddings(): open(..., "r") raises FileNotFoundError when there is
\* no file, json.load raises JSONDecodeError on a text that is no document;
\* otherwise the parsed object is returned as it is.
LoadEmbeddingsResult(file) ==
  IF ~file.exists
  THEN [status |-> "raised", exc |-> "FileNotFoundError", store |-> EmptyStore]
  ELSE IF JsonLoad(file.content).ok
       THEN [status |-> "returned", exc |-> "none",
             store |-> JsonLoad(file.content).val]
       ELSE [status |-> "raised", exc |-> "JSONDecodeError", store |-> EmptyStore]

\* A direct call of load_embeddings.
LoadEmbeddings ==
  /\ LET ld == LoadEmbeddingsResult(artifact)
     IN  last' = Call("load_embeddings", ld.status, ld.exc, artifact.exists,
                      FALSE, ld.store, <<>>)
  /\ UNCHANGED <<artifact, saving, stored_data>>
  /\ UNCHANGED <<searchVars, asideVars>>
  /\ UNCHANGED <<worldVars, buildVars>>

\* ------------------------------------------------------------- queries
\* The separator "\n\n": two newline characters.
BlankLine == <<"\n", "\n">>

\* "\n\n".join(relevant_texts): one string, the texts with the separator
\* between consecutive ones ("" for no text).
RECURSIVE JoinBlankLine(_)
JoinBlankLine(txts) ==
  IF txts = <<>> THEN <<>>
  ELSE IF Len(txts) = 1 THEN Head(txts)
  ELSE Head(txts) \o BlankLine \o JoinBlankLine(Tail(txts))

\* answer_question(question) of main.py: embed the question with the model
\* os.getenv gives now, load the store from the artifact, search it, build
\* the context, ask the completion model.
AnswerQuestion ==
  /\ \E r \in QuestionResponses :
       LET model == EmbeddingModel(environ)
           ld == LoadEmbeddingsResult(artifact)
       IN  IF Raises(r)
           THEN last' = Query(Call("answer_question", "raised", "ProviderError",
                                   artifact.exists, FALSE, EmptyStore, <<>>),
                              Asked(model, StateOf(r), NoSearch, FALSE))
           ELSE IF ld.status = "raised"
           THEN last' = Query(Call("answer_question", "raised", ld.exc,
                                   artifact.exists, FALSE, EmptyStore, <<>>),
                              Asked(model, StateOf(r), NoSearch, FALSE))
           ELSE \E o \in FindMostSimilarOutcomes(r.vector, ld.store.embeddings,
                                                 ld.store.texts, DefaultTopK) :
                  IF o.status = "raised"
                  THEN last' = Query(Call("answer_question", "raised", o.exc,
                                          artifact.exists, TRUE, ld.store, <<>>),
                                     Asked(model, StateOf(r), Searched(o), FALSE))
                  ELSE \E completed \in BOOLEAN :
                         last' = Query(Call("answer_question",
                                            IF completed THEN "returned" ELSE "raised",
                                            IF completed THEN "none" ELSE "ProviderError",
                                            artifact.exists, TRUE, ld.store,
                                            JoinBlankLine(o.result)),
                                       Asked(model, StateOf(r), Searched(o), TRUE))
  /\ UNCHANGED <<artifact, saving, stored_data>>
  /\ UNCHANGED <<searchVars, asideVars>>
  /\ UNCHANGED <<worldVars, buildVars>>

\* What get_relevant_context returns while stored_data is None.
NotLoadedContext == Str("Error: Embeddings not loaded")

\* A mutation of IsNone: the test never lets a call through.
IsNoneAlways(data) == TRUE

\* `stored_data is None`, the first test of get_relevant_context.
IsNone(data) == ~data.loaded

\* A mutation of GetRelevantContext: the query's vector is added to the
\* store that was searched.
GetRelevantContextIndexing ==
  /\ stored_data.loaded
  /\ \E q \in QueryPool :
       stored_data' = [stored_data EXCEPT !.store.embeddings = Append(@, q)]
  /\ last' = Query(Call("get_relevant_context", "returned", "none",
                        artifact.exists, TRUE, stored_data.store, <<>>),
                   Asked(EmbeddingModel(environ), "answered", NoSearch, FALSE))
  /\ UNCHANGED <<artifact, saving>>
  /\ UNCHANGED <<searchVars, asideVars>>
  /\ UNCHANGED <<worldVars, buildVars>>

\* get_relevant_context(query) of 9_agno_qa.py: the module's stored_data is
\* searched; the artifact is not read.
GetRelevantContext ==
  /\ IF IsNone(stored_data)
     THEN last' = Call("get_relevant_context", "returned", "none",
                       artifact.exists, FALSE, EmptyStore, NotLoadedContext)
     ELSE \E r \in QuestionResponses :
            LET model == EmbeddingModel(environ)
            IN  IF Raises(r)
                THEN last' = Query(Call("get_relevant_context", "raised",
                                        "ProviderError", artifact.exists, FALSE,
                                        stored_data.store, <<>>),
                                   Asked(model, StateOf(r), NoSearch, FALSE))
                ELSE \E o \in FindMostSimilarOutcomes(r.vector,
                                 stored_data.store.embeddings,
                                 stored_data.store.texts, DefaultTopK) :
                       last' = Query(IF o.status = "raised"
                                     THEN Call("get_relevant_context", "raised",
                                               o.exc, artifact.exists, TRUE,
                                               stored_data.store, <<>>)
                                     ELSE Call("get_relevant_context", "returned",
                                               "none", artifact.exists, TRUE,
                                               stored_data.store,
                                               JoinBlankLine(o.result)),
                                     Asked(model, StateOf(r), Searched(o), FALSE))
  /\ UNCHANGED <<artifact, saving, stored_data>>
  /\ UNCHANGED <<searchVars, asideVars>>
  /\ UNCHANGED <<worldVars, buildVars>>

\* ------------------------------------------------------ program starts
\* Importing 9_agno_qa.py: stored_data = None, then the try/except around
\* load_embeddings(), which prints the exception and goes on.
ImportQa ==
  /\ LET ld == LoadEmbeddingsResult(artifact)
     IN  /\ stored_data' = IF ld.status = "returned"
                           THEN [loaded |-> TRUE, store |-> ld.store]
                           ELSE None
         /\ last' = Call("import", "returned", ld.exc, artifact.exists, FALSE,
                         ld.store, <<>>)
  /\ started_with' = EmbeddingModel(environ)
  /\ UNCHANGED <<artifact, saving, build, first_run>>
  /\ UNCHANGED <<searchVars, asideVars>>
  /\ UNCHANGED worldVars

\* A mutation of PathExists: the artifact is never found.
PathExistsNever(file) == FALSE

\* os.path.exists("embedding_data/embedding.json")
PathExists(file) == file.exists

\* main() up to the loop of create_embeddings.  With the artifact on disk it
\* is loaded and nothing else is done.  Without it load_content reads the
\* content source (open() may raise) and create_embeddings reads the model
\* and starts with no vector.  into_stored_data is 9_agno_qa.py's main(),
\* which keeps the loaded store in stored_data.
LoadOrBuild(op, into_stored_data) ==
  IF PathExists(artifact)
  THEN LET ld == LoadEmbeddingsResult(artifact)
       IN  /\ last' = Call(op, ld.status, ld.exc, TRUE, FALSE, ld.store, <<>>)
           /\ stored_data' = IF into_stored_data /\ ld.status = "returned"
                             THEN [loaded |-> TRUE, store |-> ld.store]
                             ELSE stored_data
           /\ UNCHANGED <<artifact, saving, build>>
  ELSE /\ \/ \* load_content cannot open the content source
             /\ last' = Call(op, "raised", "FileNotFoundError", FALSE, FALSE,
                             EmptyStore, <<>>)
             /\ build' = Build(op, "unread", <<>>, "none", <<>>)
          \/ /\ last' = Call(op, "running", "none", FALSE, FALSE, EmptyStore, <<>>)
             /\ build' = Build(op, "embedding", LoadContent(content),
                               EmbeddingModel(environ), NewList(build.embeddings))
       /\ UNCHANGED <<artifact, saving, stored_data>>

\* main() of main.py, run as a program.
Main ==
  /\ LoadOrBuild("main", FALSE)
  /\ started_with' = EmbeddingModel(environ)
  /\ UNCHANGED first_run
  /\ UNCHANGED <<searchVars, asideVars>>
  /\ UNCHANGED worldVars

\* main() of 9_agno_qa.py, in the process that imported the module.
QaMain ==
  /\ LoadOrBuild("qa_main", TRUE)
  /\ UNCHANGED <<started_with, first_run>>
  /\ UNCHANGED <<searchVars, asideVars>>
  /\ UNCHANGED worldVars

\* ------------------------------------------- create_embeddings, step by step
\* A mutation of NextText: every request carries the first text.
NextTextFirst(b) == b.texts[1]

\* `for text in texts`: the text of the next pass of the loop.
NextText(b) == b.texts[Len(b.requests) + 1]

\* A mutation of LoopDone: the loop may end after any pass.
LoopDoneEarly(b) == TRUE

\* The loop has gone through all of texts.
LoopDone(b) == Len(b.requests) = Len(b.texts)

\* A mutation of AppendVector: the new vector is put in front.
PrependVector(embs, vector) == <<vector>> \o embs

\* embeddings.append(response.data[0].embedding)
AppendVector(embs, vector) == Append(embs, vector)

\* The loop's next embeddings.create(model=model, input=text) is sent: one
\* text, the next in texts, with the model read before the loop.
EmbedRequest ==
  /\ build.phase = "embedding"
  /\ Len(build.requests) < Len(build.texts)
  /\ build' = [build EXCEPT
                 !.phase = "waiting",
                 !.requests = Append(@, Request(NextText(build), build.model))]
  /\ UNCHANGED <<started_with, first_run>>
  /\ UNCHANGED storeVars
  /\ UNCHANGED <<searchVars, asideVars>>
  /\ UNCHANGED worldVars

\* The call returns, and the vector is appended to embeddings, or it raises
\* and the exception leaves create_embeddings and main().
EmbedResponse ==
  /\ build.phase = "waiting"
  /\ \E r \in TextResponses(build.requests[Len(build.requests)].input) :
       LET i == Len(build.requests)
       IN  IF Raises(r)
           THEN /\ build' = [build EXCEPT !.phase = "failed",
                                          !.requests[i].state = StateOf(r)]
                /\ last' = Call(build.op, "raised", "ProviderError", FALSE, FALSE,
                                EmptyStore, <<>>)
           ELSE /\ build' = [build EXCEPT !.phase = "embedding",
                                          !.requests[i].state = StateOf(r),
                                          !.requests[i].vector = r.vector,
                                          !.embeddings = AppendVector(@, r.vector)]
                /\ UNCHANGED last
  /\ UNCHANGED <<artifact, saving, stored_data>>
  /\ UNCHANGED <<started_with, first_run>>
  /\ UNCHANGED <<searchVars, asideVars>>
  /\ UNCHANGED worldVars

\* The loop is over: create_embeddings returns and main() calls
\* save_embeddings(texts, embeddings).
BuildSave ==
  /\ build.phase = "embedding"
  /\ LoopDone(build)
  /\ SaveBegin(build.op, build.texts, build.embeddings)
  /\ build' = [build EXCEPT !.phase = "saving"]
  /\ UNCHANGED <<stored_data, started_with, first_run>>
  /\ UNCHANGED <<searchVars, asideVars>>
  /\ UNCHANGED worldVars

\* ------------------------------------------------- outside the programs
\* A direct call of load_content().
ReadContent ==
  /\ \/ last' = Call("load_content", "raised", "FileNotFoundError",
                     artifact.exists, FALSE, EmptyStore, <<>>)
     \/ last' = Call("load_content", "returned", "none", artifact.exists, FALSE,
                     StoreOf(LoadContent(content), <<>>), <<>>)
  /\ UNCHANGED <<artifact, saving, stored_data>>
  /\ UNCHANGED <<searchVars, asideVars>>
  /\ UNCHANGED <<worldVars, buildVars>>

\* content_data/content.txt is edited.
ChangeContent ==
  /\ content' \in {ContentFile, ContentFileEdited} \ {content}
  /\ first_run' = [first_run EXCEPT !.unchanged = FALSE]
  /\ UNCHANGED <<environ, started_with, build>>
  /\ UNCHANGED storeVars
  /\ UNCHANGED <<searchVars, asideVars>>

\* EMBEDDING_MODEL is set, changed or unset in os.environ.
SetEnviron ==
  /\ environ' \in EnvironValues \ {environ}
  /\ UNCHANGED content
  /\ UNCHANGED buildVars
  /\ UNCHANGED storeVars
  /\ UNCHANGED <<searchVars, asideVars>>

\* embedding_data/embedding.json is deleted, between two saves.
RemoveArtifact ==
  /\ artifact.exists
  /\ saving.phase # "open"
  /\ artifact' = Absent
  /\ last' = Call("rm", "returned", "none", TRUE, FALSE, EmptyStore, <<>>)
  /\ UNCHANGED <<saving, stored_data>>
  /\ UNCHANGED buildVars
  /\ UNCHANGED <<searchVars, asideVars>>
  /\ UNCHANGED worldVars

\* --------------------------------------------------- the specifications
\* The store's functions called directly, with any arguments.
NextStore ==
  \/ SaveEmbeddings
  \/ SaveWrite
  \/ SaveClose
  \/ SaveFail
  \/ LoadEmbeddings
  \/ AnswerQuestion

\* No artifact, no call yet; find_most_similar's own variables are not used.
Init ==
  /\ InitStore
  /\ outcome = Pending
  /\ query_embedding = <<>>
  /\ embeddings = <<>>
  /\ texts = <<>>
  /\ top_k = DefaultTopK

SpecStore == Init /\ [][NextStore]_vars

\* The two programs, main.py and 9_agno_qa.py, on one artifact.  Neither
\* program ever removes the artifact, so once written the file stays; its
\* removal from outside is not a step of this specification.
Next ==
  \/ Main
  \/ QaMain
  \/ ImportQa
  \/ EmbedRequest
  \/ EmbedResponse
  \/ BuildSave
  \/ AnswerQuestion
  \/ GetRelevantContext
  \/ SaveWrite
  \/ SaveClose
  \/ SaveFail

Spec == Init /\ [][Next]_vars

\* The build path and what happens to its files between runs: the content
\* source is edited, the artifact is deleted.
NextRebuild ==
  \/ Main
  \/ QaMain
  \/ ImportQa
  \/ EmbedRequest
  \/ EmbedResponse
  \/ BuildSave
  \/ SaveWrite
  \/ SaveClose
  \/ SaveFail
  \/ ChangeContent
  \/ RemoveArtifact

SpecRebuild == Init /\ [][NextRebuild]_vars

\* The programs in a process whose environment changes.
NextEnviron ==
  \/ Main
  \/ QaMain
  \/ ImportQa
  \/ EmbedRequest
  \/ EmbedResponse
  \/ BuildSave
  \/ AnswerQuestion
  \/ GetRelevantContext
  \/ SaveWrite
  \/ SaveClose
  \/ SaveFail
  \/ SetEnviron

SpecEnviron == Init /\ [][NextEnviron]_vars

\* Largest number of characters of a content file.
MaxChars == 5

\* The characters of a content file: the whitespace, and two others.
Chars == Whitespace \cup {"a", "b"}

\* load_content as a function of the file's text.
InitContent ==
  /\ InitAside
  /\ artifact = Absent
  /\ saving = NoSave
  /\ stored_data = None
  /\ last = NoCall
  /\ content \in SeqsUpTo(Chars, MaxChars)
  /\ environ = Unset
  /\ started_with = EmbeddingModel(Unset)
  /\ build = NoBuild
  /\ first_run = NoRun
  /\ outcome = Pending
  /\ query_embedding = <<>>
  /\ embeddings = <<>>
  /\ texts = <<>>
  /\ top_k = DefaultTopK

NextContent == ReadContent

SpecContent == InitContent /\ [][NextContent]_vars

\* ------------------------------------------- claims on find_most_similar
N == Len(embeddings)
Returned == outcome.status = "returned"
Called == outcome.status # "pending"

\* The score the call computed for record i.
Score(i) == outcome.similarities[i]

\* The records of the result, as a set of indices.
Chosen == {outcome.top_indices[j] : j \in 1..Len(outcome.top_indices)}

\* Every score of the call is a number: no stored vector and no query of norm 0.
AllScoresNumbers == \A i \in 1..N : ~IsNaN(Score(i))

ScenarioInputs ==
  /\ texts = <<Str("Microsoft invests $80B in AI"),
                Str("Nvidia GPUs power AI training")>>
  /\ embeddings = <<(<<1, 0>>), (<<0, 1>>)>>
  /\ query_embedding = <<1, 0>>
  /\ top_k = 2

\* C1: for k >= 1 the result is ordered by score from highest to lowest
\* (the score at position j is >= the score at position j+1), stated here for
\* the calls whose scores are all numbers; in the spec's two-record scenario
\* the result is the Microsoft text, then the Nvidia text.
C1_ResultDescending ==
  (Called /\ N >= 1 /\ top_k >= 1 /\ AllScoresNumbers) =>
     /\ Returned
     /\ \A j \in 1..(Len(outcome.top_indices) - 1) :
           FloatLe(Score(outcome.top_indices[j + 1]), Score(outcome.top_indices[j]))
     /\ ScenarioInputs =>
           outcome.result =
             <<Str("Microsoft invests $80B in AI"),
               Str("Nvidia GPUs power AI training")>>

\* C2: for a store of N >= 1 records and every k >= 0 the call returns
\* exactly min(k, N) entries, no index twice (all N when k >= N).
C2_ResultCardinality ==
  (Called /\ N >= 1) =>
     /\ Returned
     /\ Len(outcome.top_indices) = Min(top_k, N)
     /\ Len(outcome.result) = Min(top_k, N)
     /\ Cardinality(Chosen) = Len(outcome.top_indices)

PosOf(i) ==
  IF i \in Chosen
  THEN CHOOSE j \in 1..Len(outcome.top_indices) : outcome.top_indices[j] = i
  ELSE 0

\* C4: of two records with equal score the one with the lower index comes
\* first in the result, and is the one returned when only one of them fits.
C4_TiesLowerIndexFirst ==
  (Called /\ N >= 1 /\ top_k >= 1 /\ AllScoresNumbers) =>
     /\ Returned
     /\ \A i, j \in 1..N :
          (i < j /\ FloatEq(Score(i), Score(j))) =>
             /\ j \in Chosen => i \in Chosen
             /\ (i \in Chosen /\ j \in Chosen) => PosOf(i) < PosOf(j)

\* A score of 0.0.
IsZeroScore(s) == ~s.nan /\ s.sgn = 0

\* C5: when the query or a stored vector has norm 0 the call does not raise,
\* the similarity of that pair is 0.0, not NaN, and the record is ranked as
\* one of score 0.0: never returned in place of a record of positive score,
\* never left out in favour of a record of negative score.
C5_ZeroNormScoresZero ==
  (Called /\ N >= 1 /\ top_k >= 1) =>
     /\ Returned
     /\ \A i \in 1..N :
          (NormSq(embeddings[i]) = 0 \/ NormSq(query_embedding) = 0) =>
             /\ IsZeroScore(Score(i))
             /\ \A p \in 1..N :
                   (~IsNaN(Score(p)) /\ Score(p).sgn = 1 /\ i \in Chosen)
                      => p \in Chosen
             /\ \A m \in 1..N :
                   (~IsNaN(Score(m)) /\ Score(m).sgn = -1 /\ m \in Chosen)
                      => i \in Chosen

\* C6: on a store of no records the call returns the empty sequence and
\* does not raise, whatever the query and k.
C6_EmptyStoreReturnsEmpty ==
  (Called /\ N = 0) => (Returned /\ outcome.result = <<>>)

\* ------------------------------------------------- claims on the store
SavedStore == StoreOf(saving.texts, saving.embeddings)

\* C7: a load_embeddings() made after save_embeddings(texts, embeddings) has
\* returned, for texts and vectors of equal number and one dimension,
\* returns exactly {"texts": texts, "embeddings": embeddings}, whatever the
\* file held before the save.
C7_RoundTrip ==
  (saving.phase = "returned" /\ WellShaped(SavedStore)
     /\ last.op = "load_embeddings") =>
        /\ last.status = "returned"
        /\ last.store = SavedStore

\* C7's case: two records saved over a longer artifact, then loaded.
C7_Witness ==
  /\ saving.phase = "returned"
  /\ saving.shrinks
  /\ WellShaped(SavedStore)
  /\ Len(saving.texts) = 2
  /\ last.op = "load_embeddings"
  /\ last.status = "returned"

\* C8: load_embeddings never returns a store whose texts and vectors differ
\* in number or whose vectors differ in length, and find_most_similar is
\* never invoked on one.
C8_MalformedStoreRejected ==
  /\ (last.op = "load_embeddings" /\ last.status = "returned")
        => WellShaped(last.store)
  /\ last.searched => WellShaped(last.store)

\* C9: with no artifact on disk, a query does no search and ends in an
\* exception or in the message "Error: Embeddings not loaded" - never in a
\* context built from a store -; main() then either starts the build or
\* raises; and the import of 9_agno_qa.py reports the FileNotFoundError and
\* leaves stored_data None.
C9_MissingStoreFailsClearly ==
  /\ (last.op \in {"answer_question", "get_relevant_context"} /\ ~last.present) =>
        /\ ~last.searched
        /\ \/ last.status = "raised"
           \/ last.context = Str("Error: Embeddings not loaded")
  /\ (last.op \in {"main", "qa_main"} /\ ~last.present) =>
        last.status \in {"running", "raised"}
  /\ (last.op = "import" /\ ~last.present) =>
        /\ last.exc = "FileNotFoundError"
        /\ ~stored_data.loaded
  /\ stored_data.loaded => artifact.exists

\* C9's case: get_relevant_context called with no artifact and no store.
C9_Witness ==
  /\ last.op = "get_relevant_context"
  /\ ~last.present
  /\ ~artifact.exists
  /\ last.status = "returned"
  /\ last.context = Str("Error: Embeddings not loaded")

\* C10: the artifact is never empty or cut short: whenever the file is
\* there it is a complete document, so a start of main() that finds it
\* loads a store.
C10_ArtifactNeverPartial ==
  /\ artifact.exists => JsonLoad(artifact.content).ok
  /\ (last.op \in {"main", "qa_main"} /\ last.present) => last.status = "returned"

\* ------------------------------------------------- claims on the build
Mains == {"main", "qa_main"}
Queries == {"answer_question", "get_relevant_context"}

\* The build ended before save_embeddings was called.
BuildFailed == build.phase \in {"unread", "failed"}

\* This step calls save_embeddings.
SaveStarts == saving.phase # "open" /\ saving'.phase = "open"

\* C11: a build that fails before saving (load_content raises, or an
\* embedding request raises) does not call save_embeddings and leaves the
\* artifact as it was, that is absent; and when main() does call
\* save_embeddings, it passes all the texts with one answered request and
\* one vector for each, never a prefix.
C11_FailedBuildLeavesArtifact ==
  /\ [](BuildFailed => artifact = Absent)
  /\ [][((build' # build /\ build'.phase \in {"unread", "failed"}) =>
            (artifact' = artifact /\ saving' = saving))
        /\ ((SaveStarts /\ saving'.caller \in Mains) =>
              /\ saving'.texts = LoadContent(content)
              /\ Len(saving'.embeddings) = Len(saving'.texts)
              /\ Len(build.requests) = Len(saving'.texts)
              /\ \A i \in 1..Len(build.requests) :
                    build.requests[i].state = "answered")]_vars

\* C11's case: the second embedding request of a build raised, after the
\* first vector had been appended; there is no artifact.
C11_Witness ==
  /\ build.phase = "failed"
  /\ Len(build.texts) = 2
  /\ Len(build.embeddings) = 1
  /\ artifact = Absent
  /\ last.op \in Mains
  /\ last.exc = "ProviderError"

\* The store json.load reads from the artifact.
Persisted == JsonLoad(artifact.content).val

\* C12: after a build whose save has returned, the artifact holds as many
\* vectors as texts, the texts are load_content's output in line order, and
\* vector i is the one the provider returned to the request whose input was
\* text i.
C12_BuiltStoreAligned ==
  build.phase = "built" =>
     /\ artifact.exists
     /\ JsonLoad(artifact.content).ok
     /\ Len(Persisted.texts) = Len(Persisted.embeddings)
     /\ Persisted.texts = LoadContent(content)
     /\ Len(build.requests) = Len(Persisted.texts)
     /\ \A i \in 1..Len(Persisted.texts) :
          /\ build.requests[i].input = Persisted.texts[i]
          /\ build.requests[i].state = "answered"
          /\ build.requests[i].vector = Persisted.embeddings[i]

\* C12's case: a build of two texts with two different vectors is saved.
C12_Witness ==
  /\ build.phase = "built"
  /\ JsonLoad(artifact.content).ok
  /\ Len(Persisted.texts) = 2
  /\ Persisted.embeddings[1] # Persisted.embeddings[2]

\* C13: the requests of a build are one per text, in the order of texts,
\* each with one text as its input; a request is sent only when every
\* request before it has been answered; a build that reaches the save has
\* made exactly as many requests as there are texts; and after a request
\* has failed the build makes no other request.
C13_OneRequestPerTextInOrder ==
  /\ [](/\ Len(build.requests) <= Len(build.texts)
        /\ \A i \in 1..Len(build.requests) :
             /\ build.requests[i].input = build.texts[i]
             /\ i < Len(build.requests) => build.requests[i].state = "answered"
        /\ build.phase = "waiting" <=>
             (build.requests # <<>>
                /\ build.requests[Len(build.requests)].state = "sent")
        /\ build.phase = "failed" <=>
             (build.requests # <<>>
                /\ build.requests[Len(build.requests)].state = "failed")
        /\ build.phase \in {"saving", "built", "unsaved"} =>
             /\ Len(build.requests) = Len(build.texts)
             /\ \A i \in 1..Len(build.requests) :
                   build.requests[i].state = "answered")
  /\ [][(build.phase = "failed" /\ build' # build) => build'.requests = <<>>]_vars

\* C13's case: a build of two texts has made its two requests and saved.
C13_Witness ==
  /\ build.phase = "built"
  /\ Len(build.texts) = 2
  /\ Len(build.requests) = 2
  /\ build.requests[1].input # build.requests[2].input

\* C14: when the embedding request of a query fails, the query raises the
\* provider's error, does no search, builds no context and makes no
\* completion request; when a request of create_embeddings fails, the build
\* ends there: no vector list is returned, nothing is saved.
C14_ProviderFailurePropagates ==
  /\ (last.op \in Queries /\ last.asked.embedding = "failed") =>
        /\ last.status = "raised"
        /\ last.exc = "ProviderError"
        /\ ~last.searched
        /\ last.asked.search.status = "pending"
        /\ last.context = <<>>
        /\ ~last.asked.completion
  /\ (\E i \in 1..Len(build.requests) : build.requests[i].state = "failed") =>
        /\ build.phase = "failed"
        /\ last.op \in Mains => (last.status = "raised" /\ last.exc = "ProviderError")
        /\ saving.phase = "idle"

\* C14's case: answer_question's embedding request fails while a complete
\* artifact is on disk.
C14_Witness ==
  /\ last.op = "answer_question"
  /\ last.asked.embedding = "failed"
  /\ last.present
  /\ JsonLoad(artifact.content).ok

\* C15: a step that is a query leaves the artifact, the save state and
\* stored_data as they were.
C15_QueriesLeaveIndex ==
  [][(last' # last /\ last'.op \in Queries) =>
        /\ artifact' = artifact
        /\ stored_data' = stored_data
        /\ saving' = saving]_vars

\* C15's case: get_relevant_context has searched a loaded store of two
\* records, and the store is what the artifact holds.
C15_Witness ==
  /\ last.op = "get_relevant_context"
  /\ last.status = "returned"
  /\ last.searched
  /\ stored_data.loaded
  /\ Len(stored_data.store.embeddings) = 2
  /\ JsonLoad(artifact.content).ok
  /\ stored_data.store = Persisted

\* ------------------------------------------------- claims on the queries
\* The last character of a non-empty string.
LastOf(str) == str[Len(str)]

\* C16: the context of a query is the texts find_most_similar returned for
\* k = 3 (all of them for a store of fewer than three records), joined in
\* the order returned with "\n\n" between consecutive texts and nothing
\* before the first or after the last; and its first text is a most
\* similar one of the store.
C16_ContextMostSimilarFirst ==
  (last.op \in Queries /\ last.asked.search.status = "returned") =>
     /\ Len(last.asked.search.result) = Min(DefaultTopK, Len(last.store.texts))
     /\ last.context = JoinBlankLine(last.asked.search.result)
     /\ last.context # <<>> =>
           (Head(last.context) \notin Whitespace
              /\ LastOf(last.context) \notin Whitespace)
     /\ last.asked.search.best # {} => 1 \in last.asked.search.best

\* ------------------------------------------- claims on the build path
\* This step is a main() that finds the artifact on disk.
StartsWithArtifact == last' # last /\ last'.op \in Mains /\ artifact.exists

\* This step enters main()'s build branch.
BuildBegins == build' # build /\ build'.phase \in {"unread", "embedding"}

\* C17: a main() that finds the artifact on disk loads it and does nothing
\* else - no build is started, no save, the artifact is left as it is,
\* whatever content.txt holds now -, and the build branch is entered only
\* when there is no artifact.
C17_ExistingArtifactSkipsBuild ==
  [][/\ StartsWithArtifact =>
          /\ artifact' = artifact
          /\ build' = build
          /\ saving' = saving
          /\ last'.status # "running"
          /\ last'.status = "returned" => last'.store = Persisted
     /\ BuildBegins => ~artifact.exists]_vars

\* C17's case: main() has loaded an artifact built from the content file
\* as it was before an edit.
C17_Witness ==
  /\ last.op \in Mains
  /\ last.present
  /\ last.status = "returned"
  /\ build.phase = "built"
  /\ content # ContentFile
  /\ last.store.texts = LoadContent(ContentFile)
  /\ last.store.texts # LoadContent(content)
  /\ Persisted = last.store

\* A run of main() has come to its end with a store: it loaded the
\* artifact, or its build was saved.
RunEnded ==
  \/ last.op \in Mains /\ last.present /\ last.status = "returned"
  \/ last.op = "save_embeddings" /\ last.status = "returned" /\ ByBuild

\* The document a build writes for a content file: the dump of its texts
\* and of the provider's vector for each.
BuildDocument(chars) ==
  JsonDump(LoadContent(chars), CreateEmbeddings(LoadContent(chars)))

\* C18: while the content source is not edited, what the first completed
\* build wrote is determined by the content file and the provider's vector
\* for each text, and a run of main() that ends after it - with the
\* artifact found on disk, or rebuilding it after it was deleted - leaves
\* the artifact with exactly that text.
C18_BuildIdempotent ==
  /\ (first_run.done /\ first_run.unchanged) =>
        first_run.document = BuildDocument(content)
  /\ (first_run.done /\ first_run.unchanged /\ RunEnded) =>
        /\ artifact.exists
        /\ artifact.content = first_run.document

\* C18's case: the artifact was deleted after the first build and a second
\* build has been saved.
C18_Witness ==
  /\ first_run.done
  /\ first_run.unchanged
  /\ first_run.rebuilt
  /\ last.op = "save_embeddings"
  /\ last.status = "returned"
  /\ Len(first_run.document) > 0
  /\ artifact.content = first_run.document

\* C19: every embedding request of the process, of its build and of its
\* queries, carries the model identifier that was in force when the
\* process started.
C19_ModelReadOnce ==
  /\ \A i \in 1..Len(build.requests) : build.requests[i].model = build.model
  /\ last.asked.embedding # "none" => last.asked.model = started_with

\* ------------------------------------------- claims on load_content
\* The positions where a line of the content file begins.
LineStarts ==
  {a \in 1..Len(content) : a = 1 \/ content[a - 1] = "\n"}

\* The position where the line beginning at a ends.
LineEnd(a) ==
  CHOOSE b \in a..Len(content) :
    /\ content[b] = "\n" \/ b = Len(content)
    /\ \A c \in a..(b - 1) : content[c] # "\n"

\* The positions of the line beginning at a that hold no whitespace.
Inked(a) == {p \in a..LineEnd(a) : content[p] \notin Whitespace}

Least(S) == CHOOSE x \in S : \A y \in S : x <= y
Greatest(S) == CHOOSE x \in S : \A y \in S : y <= x

\* The line beginning at a without its leading and trailing whitespace.
Trimmed(a) == SubSeq(content, Least(Inked(a)), Greatest(Inked(a)))

\* The beginnings of the lines that are not blank.
NonBlankStarts == {a \in LineStarts : Inked(a) # {}}

\* The j-th of them.
NthNonBlank(j) ==
  CHOOSE a \in NonBlankStarts : Cardinality({x \in NonBlankStarts : x < a}) = j - 1

\* C20: load_content returns one string for each line that is not blank,
\* in the order of the lines, each the line without its leading and
\* trailing whitespace; and a second load_content of the same file returns
\* the same list.
C20_LoadContentTrimsLines ==
  /\ []((last.op = "load_content" /\ last.status = "returned") =>
          /\ Len(last.store.texts) = Cardinality(NonBlankStarts)
          /\ \A j \in 1..Len(last.store.texts) :
                last.store.texts[j] = Trimmed(NthNonBlank(j)))
  /\ [][(last.op = "load_content" /\ last.status = "returned"
           /\ last'.op = "load_content" /\ last'.status = "returned")
          => last'.store = last.store]_vars

\* C20's case: a file with a leading blank, a blank line and no newline at
\* its end gives two texts.
C20_Witness ==
  /\ last.op = "load_content"
  /\ last.status = "returned"
  /\ content = <<" ", "a", "\n", "\n", "b">>
  /\ last.store.texts = <<Str("a"), Str("b")>>

\* ------------------------------- get_relevant_context in several threads
\* The stores a build leaves: the first n texts with the provider's vectors.
BuiltStores ==
  {StoreOf(SubSeq(TextLabels, 1, n), CreateEmbeddings(SubSeq(TextLabels, 1, n))) :
     n \in 0..MaxN}

\* 9_agno_qa.py imported with a built artifact on disk: stored_data holds
\* the store, and no thread has called yet.
InitThreads ==
  /\ \E store \in BuiltStores :
       /\ artifact = [exists |-> TRUE,
                      content |-> JsonDump(store.texts, store.embeddings)]
       /\ stored_data = [loaded |-> TRUE, store |-> store]
  /\ InitAside
  /\ saving = NoSave
  /\ last = NoCall
  /\ content = ContentFile
  /\ environ = Unset
  /\ started_with = EmbeddingModel(Unset)
  /\ build = NoBuild
  /\ first_run = NoRun
  /\ outcome = Pending
  /\ query_embedding = <<>>
  /\ embeddings = <<>>
  /\ texts = <<>>
  /\ top_k = DefaultTopK

\* A mutation of ListsAfterSearch: the search drops the last record of the
\* lists it was given.
ListsAfterSearchTrimmed(store) ==
  StoreOf(SubSeq(store.texts, 1, Len(store.texts) - 1),
          SubSeq(store.embeddings, 1, Len(store.embeddings) - 1))

\* find_most_similar computes on arrays that np.array() copied from its
\* arguments and assigns to local names only: the lists it was passed hold
\* what they held.
ListsAfterSearch(store) == store

\* The variables no step of a query assigns, beside stored_data.
queryFrame ==
  <<artifact, saving, last, worldVars, buildVars, searchVars,
    session_state, run, reports, orderVars, marketVars>>

\* Thread t calls get_relevant_context: the `is None` test, then the model
\* is read and the embedding request sent.
ContextCall(t) ==
  /\ threads[t].phase \in {"idle", "returned", "raised"}
  /\ threads' =
       [threads EXCEPT ![t] =
          IF IsNone(stored_data)
          THEN Thread("returned", EmptyStore, <<>>, <<>>, "none", NotLoadedContext)
          ELSE Thread("waiting", stored_data.store, <<>>, <<>>, "none", <<>>)]
  /\ UNCHANGED stored_data
  /\ UNCHANGED queryFrame

\* embeddings.create returns the query's vector to thread t, or raises.
ContextEmbedded(t) ==
  /\ threads[t].phase = "waiting"
  /\ \E r \in QuestionResponses :
       threads' =
         [threads EXCEPT ![t] =
            IF Raises(r)
            THEN [@ EXCEPT !.phase = "raised", !.exc = "ProviderError"]
            ELSE [@ EXCEPT !.phase = "embedded", !.query = r.vector]]
  /\ UNCHANGED stored_data
  /\ UNCHANGED queryFrame

\* Thread t in find_most_similar, up to top_indices: stored_data's
\* embeddings are read into an array, scored and sorted.
SearchScores(t) ==
  /\ threads[t].phase = "embedded"
  /\ LET query == threads[t].query
         embs == stored_data.store.embeddings
     IN  IF SimilaritiesRaise(query, embs)
         THEN threads' = [threads EXCEPT ![t] =
                            [@ EXCEPT !.phase = "raised", !.exc = "ValueError"]]
         ELSE \E order \in ArgsortResults(Similarities(query, embs)) :
                threads' = [threads EXCEPT ![t] =
                              [@ EXCEPT !.phase = "scored",
                                        !.top_indices = TopSlice(order, DefaultTopK)]]
  /\ stored_data' = [stored_data EXCEPT !.store = ListsAfterSearch(@)]
  /\ UNCHANGED queryFrame

\* Thread t reads texts[i] for each of its top_indices, joins the texts and
\* returns the context.
SearchTexts(t) ==
  /\ threads[t].phase = "scored"
  /\ LET top_indices == threads[t].top_indices
         txts == stored_data.store.texts
     IN  threads' =
           [threads EXCEPT ![t] =
              IF \E j \in 1..Len(top_indices) : top_indices[j] > Len(txts)
              THEN [@ EXCEPT !.phase = "raised", !.exc = "IndexError"]
              ELSE [@ EXCEPT !.phase = "returned",
                             !.context = JoinBlankLine(
                                [j \in 1..Len(top_indices) |-> txts[top_indices[j]]])]]
  /\ UNCHANGED stored_data
  /\ UNCHANGED queryFrame

\* Queries in several threads of one process, on the store loaded at import.
NextThreads ==
  \E t \in Threads :
    \/ ContextCall(t)
    \/ ContextEmbedded(t)
    \/ SearchScores(t)
    \/ SearchTexts(t)

SpecThreads == InitThreads /\ [][NextThreads]_vars

\* What get_relevant_context does with the query vector when it is the only
\* call running on the store: the exception find_most_similar raises, or the
\* context string.
AloneResults(query, index) ==
  {[exc |-> o.exc, context |-> JoinBlankLine(o.result)] :
     o \in FindMostSimilarOutcomes(query, index.embeddings, index.texts,
                                   DefaultTopK)}

\* Thread t's call has ended, after its embedding request was answered.
Searching(t) ==
  /\ threads[t].phase \in {"returned", "raised"}
  /\ threads[t].exc # "ProviderError"

\* C21: every query that ran while other threads were querying the same
\* loaded store ended as it can end when run alone on the store it found at
\* its start (the same exception, or the same context string), and no step
\* of any query changed stored_data.
C21_ConcurrentQueriesAsAlone ==
  /\ [](\A t \in Threads :
          Searching(t) =>
            [exc |-> threads[t].exc, context |-> threads[t].context]
              \in AloneResults(threads[t].query, threads[t].index))
  /\ [][stored_data' = stored_data]_vars

\* Two threads were inside their searches at one time (one had scored and
\* not yet read the texts when the other scored), and both returned a
\* context of two or more texts.
C21_Witness ==
  /\ \A t \in Threads :
       /\ threads[t].phase = "returned"
       /\ Len(threads[t].top_indices) >= 2
       /\ threads[t].context # <<>>
  /\ threads[1].query # threads[2].query
  /\ threads[1].context # threads[2].context

\* ------------------------------------- claims on 9_agno_qa.py's stored_data
\* This step completes the load-or-build branch of 9_agno_qa.py's main():
\* its load_embeddings() returned, or the save of its build returned (the
\* assignment of line 143 is part of that step).
QaBranchCompletes ==
  \/ /\ last' # last
     /\ last'.op = "qa_main"
     /\ last'.status = "returned"
  \/ /\ saving.phase = "open"
     /\ saving'.phase = "returned"
     /\ saving.caller = "qa_main"

\* This step is a call of get_relevant_context.
ContextReturns == last' # last /\ last'.op = "get_relevant_context"

\* This step is the import of 9_agno_qa.py whose load_embeddings() raised.
ImportFails == last'.op = "import" /\ last'.exc # "none"

\* C22: the step that completes main()'s load-or-build branch leaves
\* stored_data non-None; stored_data, once non-None, stays so until the
\* module is imported anew, and becomes None only by an import whose load
\* failed; a get_relevant_context call made while it is non-None leaves it
\* as it is and does not return "Error: Embeddings not loaded", so that
\* string is returned only while stored_data is None.
C22_StoredDataStaysLoaded ==
  [][/\ QaBranchCompletes => stored_data'.loaded
     /\ (stored_data.loaded /\ ContextReturns) =>
           /\ stored_data' = stored_data
           /\ last'.context # NotLoadedContext
     /\ (ContextReturns /\ last'.context = NotLoadedContext) =>
           /\ ~stored_data.loaded
           /\ ~stored_data'.loaded
     /\ (stored_data.loaded /\ ~stored_data'.loaded) => ImportFails]_vars

\* C22's case: 9_agno_qa.py's main() built and saved a store of two records,
\* and a get_relevant_context call after it searched that store and
\* returned a context.
C22_Witness ==
  /\ build.op = "qa_main"
  /\ build.phase = "built"
  /\ stored_data.loaded
  /\ Len(stored_data.store.texts) = 2
  /\ last.op = "get_relevant_context"
  /\ last.status = "returned"
  /\ last.searched
  /\ last.context # NotLoadedContext

\* ----------------------------------- AIInvestmentWorkflow.run, step by step
\* self.session_state.get("results", {}).get(topic)
GetCachedResults(state, topic) ==
  IF state.has_results THEN state.results[topic] ELSE NoEntry

\* A mutation of SaveResultsToCache: the dict under "results" is replaced
\* by one that holds the topic alone.
SaveResultsAlone(state, topic, results) ==
  [has_results |-> TRUE,
   results |-> [t \in Topics |-> IF t = topic THEN Entry(results) ELSE NoEntry]]

\* self.session_state.setdefault("results", {}), then
\* self.session_state["results"][topic] = results
SaveResultsToCache(state, topic, results) ==
  [has_results |-> TRUE,
   results |-> [(IF state.has_results THEN state.results
                 ELSE [t \in Topics |-> NoEntry]) EXCEPT ![topic] = Entry(results)]]

\* A mutation of CacheHit: the cache is not looked at.
CacheHitNever(use_cache, cached_results) == FALSE

\* `if use_cache:` and, inside it, `if cached_results:`
CacheHit(use_cache, cached_results) == use_cache /\ Truthy(cached_results)

\* The agents in the order run() names them, and the content each can give.
Agents == <<"research", "analysis", "summary">>

Contents(agent) ==
  IF agent = "research" THEN {"findings A", "findings B"}
  ELSE IF agent = "analysis" THEN {"analysis"}
  ELSE {"summary"}

\* What agent.run(prompt) does: it raises, returns None ("none"), or returns
\* a response whose content is "" or a text.
Reply(kind, text) == [kind |-> kind, content |-> text]

Replies(agent) ==
  {Reply("raises", ""), Reply("none", ""), Reply("response", "")}
    \cup {Reply("response", c) : c \in Contents(agent)}

\* A mutation of Falsy: any reply is taken for content.
FalsyNever(reply) == FALSE

\* `not response or not response.content`
Falsy(reply) == reply.kind = "none" \/ reply.content = ""

Message(event, text) == Event(event, text, EmptyDict)

\* The first response of a run that looks no results up or finds none.
Researching(topic) ==
  Message("run_started", <<"Researching '">> \o topic \o <<"'...">>)

\* A mutation of ErrorEvent: the failure is reported as a completed run.
ErrorAsCompleted(agent) ==
  Message("run_completed", <<"Error: Could not complete ", agent, " step">>)

\* The response yielded when an agent gave nothing.
ErrorEvent(agent) ==
  Message("run_error", <<"Error: Could not complete ", agent, " step">>)

\* The responses yielded after an agent gave content, up to the next agent.
ProgressEvents(agent) ==
  IF agent = "research"
  THEN <<Message("run_response", Str("Research step completed")),
         Message("run_response", Str("Analyzing research findings..."))>>
  ELSE IF agent = "analysis"
  THEN <<Message("run_response", Str("Analysis step completed")),
         Message("run_response", Str("Creating executive summary..."))>>
  ELSE <<Message("run_response", Str("Summary step completed"))>>

\* The generator after agent.run(prompt) gave the reply: the exception
\* leaves run(); on nothing, run_error is yielded; on content, the progress
\* responses are yielded and the generator stops before the next agent.
AfterAgent(gen, agent, reply, next) ==
  LET ran == [gen EXCEPT !.agents = Append(@, agent)]
  IN  IF reply.kind = "raises" THEN [ran EXCEPT !.pc = "raised"]
      ELSE IF Falsy(reply)
      THEN [ran EXCEPT !.pc = "error", !.events = Append(@, ErrorEvent(agent))]
      ELSE [ran EXCEPT !.pc = next, !.events = @ \o ProgressEvents(agent)]

\* What is kept of the call before: its topic and use_cache, whether it
\* found its results in the cache, the event of the last response it yielded
\* ("none" for no response) and that response's results.
Before(gen) ==
  [topic |-> gen.topic,
   use_cache |-> gen.use_cache,
   hit |-> gen.agents = <<>> /\ gen.events # <<>>
             /\ gen.events[1].event = "run_completed",
   ended |-> IF gen.events = <<>> THEN "none"
             ELSE gen.events[Len(gen.events)].event,
   results |-> IF gen.events = <<>> THEN EmptyDict
               ELSE gen.events[Len(gen.events)].results]

\* The variables of the other programs.
workflowFrame ==
  <<searchVars, storeVars, worldVars, buildVars, threads, orderVars,
    marketVars>>

\* workflow.run(topic, use_cache): the generator is created; none of run()'s
\* statements has been executed.  A generator of an earlier call is dropped
\* where it was suspended.
RunCall ==
  /\ \E topic \in Topics, use_cache \in BOOLEAN :
       run' = [Generator("called", topic, use_cache) EXCEPT !.before = Before(run)]
  /\ UNCHANGED <<session_state, reports>>
  /\ UNCHANGED workflowFrame

\* The first next(): the cache is looked up and, on a hit, its results are
\* yielded as run_completed; otherwise run_started is yielded.
RunStart ==
  /\ run.pc = "called"
  /\ LET cached_results == GetCachedResults(session_state, run.topic)
     IN  run' = IF CacheHit(run.use_cache, cached_results)
                THEN [run EXCEPT
                        !.pc = "hit",
                        !.events = <<Event("run_completed", <<>>,
                                           cached_results.value)>>]
                ELSE [run EXCEPT !.pc = "research",
                                 !.events = <<Researching(run.topic)>>]
  /\ UNCHANGED <<session_state, reports>>
  /\ UNCHANGED workflowFrame

\* Step 1: the research agent runs.
ResearchStep ==
  /\ run.pc = "research"
  /\ \E reply \in Replies("research") :
       run' = [AfterAgent(run, "research", reply, "analysis") EXCEPT
                 !.research_findings =
                    IF reply.kind = "raises" \/ Falsy(reply) THEN @
                    ELSE reply.content]
  /\ UNCHANGED <<session_state, reports>>
  /\ UNCHANGED workflowFrame

\* Step 2: the analysis agent runs on the research findings.
AnalysisStep ==
  /\ run.pc = "analysis"
  /\ \E reply \in Replies("analysis") :
       run' = [AfterAgent(run, "analysis", reply, "summary") EXCEPT
                 !.analysis =
                    IF reply.kind = "raises" \/ Falsy(reply) THEN @
                    ELSE reply.content]
  /\ UNCHANGED <<session_state, reports>>
  /\ UNCHANGED workflowFrame

\* Step 3: the summary agent runs on the findings and the analysis.
SummaryStep ==
  /\ run.pc = "summary"
  /\ \E reply \in Replies("summary") :
       run' = [AfterAgent(run, "summary", reply, "summarized") EXCEPT
                 !.summary =
                    IF reply.kind = "raises" \/ Falsy(reply) THEN @
                    ELSE reply.content]
  /\ UNCHANGED <<session_state, reports>>
  /\ UNCHANGED workflowFrame

\* The text run() writes to the report file of a kind.
ReportText(gen, kind) ==
  IF kind = "research" THEN gen.research_findings
  ELSE IF kind = "analysis" THEN gen.analysis
  ELSE gen.summary

\* After the summary: the three report files are written in the order
\* research, analysis, summary (makedirs or an open() may raise: the files
\* before it are written, nothing else is done), the results are saved to
\* the cache and yielded as run_completed.
Finish ==
  /\ run.pc = "summarized"
  /\ \E written \in 0..3 :
       LET results == ResultsDict(run.research_findings, run.analysis, run.summary)
       IN  /\ reports' =
                [path \in ReportPaths |->
                   IF \E i \in 1..written : path = ReportPath(run.topic, Agents[i])
                   THEN Report(ReportText(run, CHOOSE kind \in ReportKinds :
                                                 path = ReportPath(run.topic, kind)))
                   ELSE reports[path]]
           /\ IF written < 3
              THEN /\ run' = [run EXCEPT !.pc = "raised"]
                   /\ UNCHANGED session_state
              ELSE /\ session_state' =
                        SaveResultsToCache(session_state, run.topic, results)
                   /\ run' = [run EXCEPT
                                !.pc = "completed",
                                !.events = Append(@, Event("run_completed",
                                                           <<>>, results))]
  /\ UNCHANGED workflowFrame

\* The next() after the last response: run() returns.
RunEnd ==
  /\ run.pc \in {"hit", "error", "completed"}
  /\ run' = [run EXCEPT !.pc = "done"]
  /\ UNCHANGED <<session_state, reports>>
  /\ UNCHANGED workflowFrame

\* A direct call workflow.save_results_to_cache(topic, results), with {} or
\* with a results dict.
CallSaveResults ==
  /\ \E topic \in Topics,
        results \in {EmptyDict, ResultsDict("findings A", "analysis", "summary")} :
       /\ session_state' = SaveResultsToCache(session_state, topic, results)
       /\ run' = [Generator("saved", topic, FALSE) EXCEPT !.before = Before(run)]
  /\ UNCHANGED reports
  /\ UNCHANGED workflowFrame

\* One workflow object, its run() called again and again.
NextWorkflow ==
  \/ RunCall
  \/ RunStart
  \/ ResearchStep
  \/ AnalysisStep
  \/ SummaryStep
  \/ Finish
  \/ RunEnd
  \/ CallSaveResults

SpecWorkflow == Init /\ [][NextWorkflow]_vars

\* ------------------------------------------------ claims on the workflow
\* This step is a next() on the generator: run()'s statements up to the next
\* yield, or to its end.
Resumes == run' # run /\ run'.pc \notin {"called", "saved"}

\* The responses of the generator whose event is run_completed.
Completions(gen) ==
  {i \in 1..Len(gen.events) : gen.events[i].event = "run_completed"}

\* C23: when run() starts with use_cache true and session_state holds a
\* non-empty dict for the topic, its first response is run_completed with
\* that dict, and the next() after it ends the run: one response in all, no
\* agent run, session_state and the report files as they were.
C23_CacheHitAnswersAlone ==
  [][/\ (/\ Resumes
         /\ run.pc = "called"
         /\ run.use_cache
         /\ session_state.has_results
         /\ session_state.results[run.topic].has
         /\ session_state.results[run.topic].value # EmptyDict) =>
           /\ run'.pc = "hit"
           /\ run'.events = <<Event("run_completed", <<>>,
                                    session_state.results[run.topic].value)>>
           /\ run'.agents = <<>>
           /\ session_state' = session_state
           /\ reports' = reports
     /\ (Resumes /\ run.pc = "hit") =>
           /\ run'.pc = "done"
           /\ run'.events = run.events
           /\ run'.agents = <<>>
           /\ session_state' = session_state
           /\ reports' = reports]_vars

\* C23's case: a run with use_cache true has returned after one response,
\* run_completed with the results an earlier run cached for the topic.
C23_Witness ==
  /\ run.pc = "done"
  /\ run.use_cache
  /\ run.agents = <<>>
  /\ Len(run.events) = 1
  /\ run.events[1].event = "run_completed"
  /\ run.events[1].results # EmptyDict
  /\ run.events[1].results = session_state.results[run.topic].value
  /\ reports[ReportPath(run.topic, "summary")].exists

\* The local of run() that holds the content the agent returned.
ContentFrom(gen, agent) ==
  IF agent = "research" THEN gen.research_findings
  ELSE IF agent = "analysis" THEN gen.analysis
  ELSE gen.summary

\* C24: a run that starts without a cache hit (use_cache false, or nothing
\* non-empty cached for the topic) yields run_started and goes on to the
\* research agent; at every moment the agents run so far are the first ones
\* of research, analysis, summary, each once, and every agent before the
\* last one run has returned non-empty content; a run_completed response of
\* such a run comes after all three agents returned non-empty content and
\* is the last response.
C24_AgentsInOrder ==
  /\ [](/\ \E k \in 0..3 : run.agents = SubSeq(Agents, 1, k)
        /\ \A i \in 1..Len(run.agents) : \A j \in 1..(i - 1) :
              ContentFrom(run, Agents[j]) # ""
        /\ run.agents # <<>> =>
              /\ run.events[1].event = "run_started"
              /\ \A i \in Completions(run) :
                    /\ i = Len(run.events)
                    /\ run.agents = Agents
                    /\ \A j \in 1..3 : ContentFrom(run, Agents[j]) # "")
  /\ [][(/\ Resumes
         /\ run.pc = "called"
         /\ \/ ~run.use_cache
            \/ ~session_state.has_results
            \/ ~session_state.results[run.topic].has
            \/ session_state.results[run.topic].value = EmptyDict) =>
           /\ run'.pc = "research"
           /\ run'.events = <<Researching(run.topic)>>
           /\ run'.agents = <<>>]_vars

\* C24's case: a run with use_cache false, made while results for the topic
\* were cached, ran the three agents and yielded run_completed as its
\* seventh and last response.
C24_Witness ==
  /\ run.pc = "completed"
  /\ ~run.use_cache
  /\ run.before.topic = run.topic
  /\ run.before.ended = "run_completed"
  /\ run.agents = Agents
  /\ Len(run.events) = 7
  /\ Completions(run) = {7}

\* The call before was a run that ended with run_error.
FailedBefore == run.before.ended = "run_error"

Succeeded(gen) ==
  /\ gen.pc \in {"completed", "done"}
  /\ gen.agents = Agents
  /\ Completions(gen) # {}

\* The call before was a run that ran the three agents and yielded
\* run_completed.
SucceededBefore == run.before.ended = "run_completed" /\ ~run.before.hit

\* C26: after a run that ran the three agents and yielded run_completed
\* (with use_cache true or false), get_cached_results(topic) is the dict it
\* yielded, research, analysis and summary as the agents returned them; the
\* step that saved it left the entries of the other topics as they were;
\* and the next run for the topic, if made with use_cache true, yields
\* run_completed with the same dict as its only response, running no agent.
C26_SuccessIsCached ==
  /\ [](/\ Succeeded(run) =>
             /\ GetCachedResults(session_state, run.topic)
                  = Entry(run.events[Len(run.events)].results)
             /\ run.events[Len(run.events)].results
                  = ResultsDict(run.research_findings, run.analysis, run.summary)
        /\ (/\ SucceededBefore
            /\ run.before.topic = run.topic
            /\ run.use_cache
            /\ run.pc # "called") =>
             /\ run.pc \in {"hit", "done"}
             /\ run.events = <<Event("run_completed", <<>>, run.before.results)>>
             /\ run.agents = <<>>)
  /\ [][(Resumes /\ run'.pc = "completed") =>
           \A topic \in Topics \ {run.topic} :
              GetCachedResults(session_state', topic)
                = GetCachedResults(session_state, topic)]_vars

\* C26's case: a run with use_cache false replaced the results cached for
\* its topic while another topic had results cached, and the next run for
\* the topic, with use_cache true, returned the new results from the cache.
C26_Witness ==
  /\ SucceededBefore
  /\ ~run.before.use_cache
  /\ run.before.topic = run.topic
  /\ run.use_cache
  /\ run.pc = "done"
  /\ run.events = <<Event("run_completed", <<>>, run.before.results)>>
  /\ run.before.results[1][2] = "findings B"
  /\ \A topic \in Topics : Truthy(GetCachedResults(session_state, topic))

\* ------------------------------- the tools of agno_hardcoded_workflow.py
\* (agno_dynamic_planner.py defines add_to_cart and process_order with the
\* same statements on tables of its own.)

\* str.lower() on one piece of a string.
LowerPiece(piece) ==
  IF piece = "NEURAL-HEADPHONES" THEN "neural-headphones"
  ELSE IF piece = "Audio" THEN "audio"
  ELSE IF piece = "Software" THEN "software"
  ELSE IF piece = "Computers" THEN "computers"
  ELSE IF piece = "Smart Home" THEN "smart home"
  ELSE IF piece = "Security" THEN "security"
  ELSE piece

\* product_id.lower().strip()
Normalize(str) == Strip([i \in 1..Len(str) |-> LowerPiece(str[i])])

\* The arguments the tools are called with.
ProductIdArgs ==
  {Str("neural-headphones"), <<" ", "NEURAL-HEADPHONES", " ">>,
   Str("ml-toolkit"), Str("gadget")}
QuantityArgs == {-1, 0, 5, 12, 13}
EmailArgs == {"ana@example.com", "ben@example.com"}
CategoryArgs == {Str("Audio"), <<" ", "software">>, Str("Toys")}

\* `if available_stock <= 0:`
OutOfStock(available_stock) == available_stock <= 0

\* A mutation of Exceeds: no quantity is too large.
ExceedsNever(quantity, available_stock) == FALSE

\* `if quantity > available_stock:`
Exceeds(quantity, available_stock) == quantity > available_stock

\* The variables of the other programs.
toolFrame ==
  <<searchVars, storeVars, worldVars, buildVars, threads,
    session_state, run, reports, marketVars>>

\* search_products_by_category(category)
SearchProductsByCategory ==
  /\ \E category \in CategoryArgs :
       LET matching_products ==
             {product_id \in DOMAIN PRODUCT_DATABASE :
                Str(LowerPiece(PRODUCT_DATABASE[product_id].category))
                  = Normalize(category)}
       IN  tool_call' = ToolCall("search_products_by_category",
                                 IF matching_products # {} THEN "found" ELSE "none",
                                 Normalize(category), 0, <<>>, matching_products)
  /\ UNCHANGED <<PRODUCT_DATABASE, ORDER_DATABASE, now, confirmations>>
  /\ UNCHANGED toolFrame

\* get_product_details(product_id)
GetProductDetails ==
  /\ \E id \in ProductIdArgs :
       LET product_id == Normalize(id)
       IN  tool_call' =
             IF product_id \in DOMAIN PRODUCT_DATABASE
             THEN ToolCall("get_product_details", "details", product_id,
                           PRODUCT_DATABASE[product_id].stock, <<>>, {product_id})
             ELSE ToolCall("get_product_details", "not_found", product_id, 0,
                           <<>>, {})
  /\ UNCHANGED <<PRODUCT_DATABASE, ORDER_DATABASE, now, confirmations>>
  /\ UNCHANGED toolFrame

\* check_product_availability(product_id)
CheckProductAvailability ==
  /\ \E id \in ProductIdArgs :
       LET product_id == Normalize(id)
       IN  tool_call' =
             IF product_id \in DOMAIN PRODUCT_DATABASE
             THEN LET stock == PRODUCT_DATABASE[product_id].stock
                  IN  ToolCall("check_product_availability",
                               IF stock > 0 THEN "in_stock" ELSE "out_of_stock",
                               product_id, stock, <<>>, {})
             ELSE ToolCall("check_product_availability", "not_found",
                           product_id, 0, <<>>, {})
  /\ UNCHANGED <<PRODUCT_DATABASE, ORDER_DATABASE, now, confirmations>>
  /\ UNCHANGED toolFrame

\* add_to_cart(product_id, quantity): the tests of process_order, and a
\* message; no cart is kept.
AddToCart ==
  /\ \E id \in ProductIdArgs, quantity \in QuantityArgs :
       LET product_id == Normalize(id)
       IN  tool_call' =
             IF product_id \in DOMAIN PRODUCT_DATABASE
             THEN LET available_stock == PRODUCT_DATABASE[product_id].stock
                  IN  ToolCall("add_to_cart",
                               IF OutOfStock(available_stock) THEN "out_of_stock"
                               ELSE IF Exceeds(quantity, available_stock)
                                    THEN "insufficient"
                                    ELSE "added",
                               product_id, quantity, <<>>, {})
             ELSE ToolCall("add_to_cart", "not_found", product_id, quantity,
                           <<>>, {})
  /\ UNCHANGED <<PRODUCT_DATABASE, ORDER_DATABASE, now, confirmations>>
  /\ UNCHANGED toolFrame

\* process_order(product_id, quantity, customer_email): an unknown id, a
\* stock of zero or less and a quantity above the stock are refused with a
\* message; otherwise the stock is lowered by quantity and the order is
\* stored under the id made from the clock's second.
ProcessOrder ==
  /\ confirmations < MaxOrders
  /\ \E id \in ProductIdArgs, quantity \in QuantityArgs,
        customer_email \in EmailArgs :
       LET product_id == Normalize(id)
       IN  IF product_id \notin DOMAIN PRODUCT_DATABASE
           THEN /\ tool_call' = ToolCall("process_order", "not_found",
                                         product_id, quantity, <<>>, {})
                /\ UNCHANGED <<PRODUCT_DATABASE, ORDER_DATABASE, confirmations>>
           ELSE LET product == PRODUCT_DATABASE[product_id]
                    available_stock == product.stock
                    order_id == OrderId(now)
                IN  IF OutOfStock(available_stock)
                    THEN /\ tool_call' = ToolCall("process_order", "out_of_stock",
                                                  product_id, quantity, <<>>, {})
                         /\ UNCHANGED <<PRODUCT_DATABASE, ORDER_DATABASE,
                                        confirmations>>
                    ELSE IF Exceeds(quantity, available_stock)
                    THEN /\ tool_call' = ToolCall("process_order", "insufficient",
                                                  product_id, quantity, <<>>, {})
                         /\ UNCHANGED <<PRODUCT_DATABASE, ORDER_DATABASE,
                                        confirmations>>
                    ELSE /\ PRODUCT_DATABASE' =
                              [PRODUCT_DATABASE EXCEPT
                                 ![product_id].stock = @ - quantity]
                         /\ ORDER_DATABASE' =
                              [ORDER_DATABASE EXCEPT
                                 ![order_id] = Order(product_id, quantity,
                                                     customer_email,
                                                     product.price * quantity)]
                         /\ confirmations' = confirmations + 1
                         /\ tool_call' = ToolCall("process_order", "confirmed",
                                                  product_id, quantity, order_id, {})
  /\ UNCHANGED now
  /\ UNCHANGED toolFrame

\* The clock reaches the next second.
Tick ==
  /\ now < MaxSeconds
  /\ now' = now + 1
  /\ UNCHANGED <<PRODUCT_DATABASE, ORDER_DATABASE, confirmations, tool_call>>
  /\ UNCHANGED toolFrame

\* The tools called in any order, as an agent or a workflow calls them.
NextOrders ==
  \/ SearchProductsByCategory
  \/ GetProductDetails
  \/ CheckProductAvailability
  \/ AddToCart
  \/ ProcessOrder
  \/ Tick

SpecOrders == Init /\ [][NextOrders]_vars

\* ----------------------------------------------- claims on the order tools
\* C27: whatever process_order calls are made, the stock of every product
\* is at least 0 and at most the stock the module defines for it.
C27_StockWithinInitial ==
  \A product_id \in DOMAIN PRODUCT_DATABASE :
     /\ PRODUCT_DATABASE[product_id].stock >= 0
     /\ PRODUCT_DATABASE[product_id].stock <= InitialProducts[product_id].stock

\* The quantity an order id's entry adds to the units sold of a product.
Sold(order_id, product_id) ==
  IF ORDER_DATABASE[order_id].placed
       /\ ORDER_DATABASE[order_id].product_id = product_id
  THEN ORDER_DATABASE[order_id].quantity
  ELSE 0

\* C28: for every product the stock taken since the start is the sum of the
\* quantities of the product's entries in ORDER_DATABASE, and ORDER_DATABASE
\* has one entry for each "Order confirmed!" returned, whether or not the
\* calls fell in one second of the clock.
C28_ConfirmedOrdersRecorded ==
  /\ \A product_id \in DOMAIN PRODUCT_DATABASE :
        InitialProducts[product_id].stock - PRODUCT_DATABASE[product_id].stock
          = SumSeq([i \in 1..(MaxSeconds + 1) |-> Sold(OrderId(i - 1), product_id)])
  /\ Cardinality({order_id \in OrderIds : ORDER_DATABASE[order_id].placed})
       = confirmations

\* This step is a call of the tool.
ToolStep(tool) == tool_call' # tool_call /\ tool_call'.tool = tool

ReadingTools ==
  {"search_products_by_category", "get_product_details",
   "check_product_availability", "add_to_cart"}

\* C29: a process_order call for an id that is not in PRODUCT_DATABASE, for
\* a product whose stock is zero or less, or for a quantity above the stock
\* confirms nothing and leaves PRODUCT_DATABASE and ORDER_DATABASE as they
\* were; and so does every call of add_to_cart, check_product_availability,
\* get_product_details and search_products_by_category.
C29_RefusalsAndReadsChangeNothing ==
  [][/\ (/\ ToolStep("process_order")
         /\ \/ tool_call'.product_id \notin DOMAIN PRODUCT_DATABASE
            \/ PRODUCT_DATABASE[tool_call'.product_id].stock <= 0
            \/ tool_call'.quantity > PRODUCT_DATABASE[tool_call'.product_id].stock) =>
           /\ tool_call'.kind # "confirmed"
           /\ PRODUCT_DATABASE' = PRODUCT_DATABASE
           /\ ORDER_DATABASE' = ORDER_DATABASE
           /\ confirmations' = confirmations
     /\ (\E tool \in ReadingTools : ToolStep(tool)) =>
           /\ PRODUCT_DATABASE' = PRODUCT_DATABASE
           /\ ORDER_DATABASE' = ORDER_DATABASE]_vars

\* C29's case: after an order was confirmed, an order for more units than
\* are left was refused, and the two tables hold what the confirmed order
\* left.
C29_Witness ==
  /\ tool_call.tool = "process_order"
  /\ tool_call.kind = "insufficient"
  /\ confirmations = 1
  /\ ORDER_DATABASE[OrderId(0)].placed
  /\ PRODUCT_DATABASE[tool_call.product_id].stock = 7
  /\ tool_call.quantity = 13

\* --------------------------- simulate_daily_update of 10_agno_goal_memory.py
\* USER_PREFERENCES["notification_threshold"], 5.0, in hundredths.
NotificationThreshold == 500

\* ord() of the letters company ids begin with.
Ord(letter) == IF letter = "m" THEN 109 ELSE IF letter = "a" THEN 97 ELSE 0

\* A mutation of PyMod: the remainder takes the sign of the dividend.
TruncMod(a, b) == IF a >= 0 THEN a % b ELSE 0 - ((0 - a) % b)

\* Python's a % b for b > 0: the remainder is in 0..b-1 for every integer a.
PyMod(a, b) == a % b

\* round(((day_number * 7 + ord(company_id[0])) % 15 - 7) / 2, 2), in
\* hundredths: the division gives a whole or a half, which round() keeps.
DailyChange(day_number, company_id) ==
  (PyMod(day_number * 7 + Ord(company_id[1]), 15) - 7) * 50

Abs(x) == IF x < 0 THEN 0 - x ELSE x

RECURSIVE Significant(_, _)
\* significant_changes: the companies, in MARKET_DATA's order, whose change
\* is at least the threshold in absolute value.
Significant(day_number, companies) ==
  IF companies = <<>> THEN <<>>
  ELSE (IF Abs(DailyChange(day_number, Head(companies))) >= NotificationThreshold
        THEN <<Head(companies)>> ELSE <<>>)
         \o Significant(day_number, Tail(companies))

\* The variables of the other programs.
marketFrame ==
  <<searchVars, storeVars, worldVars, buildVars, threads,
    session_state, run, reports, orderVars>>

\* simulate_daily_update(agent, day_number): daily_change of every company
\* is set, and the agent is run with one of the two prompts.
SimulateDailyUpdate ==
  /\ \E day_number \in (0 - MaxDay)..MaxDay :
       LET significant_changes == Significant(day_number, MarketCompanies)
       IN  /\ MARKET_DATA' = [i \in 1..Len(MarketCompanies) |->
                                DailyChange(day_number, MarketCompanies[i])]
           /\ daily_update' =
                DailyUpdate(day_number, significant_changes,
                            IF significant_changes # <<>> THEN "significant"
                            ELSE "plain")
  /\ UNCHANGED marketFrame

NextMarket == SimulateDailyUpdate

SpecMarket == Init /\ [][NextMarket]_vars

\* ------------------------------------------------ claim on the daily update
\* C30: after simulate_daily_update, for any day_number, the daily_change
\* of every company is the formula's value and lies between -3.5 and 3.5,
\* so below the threshold of 5.0 in absolute value; significant_changes is
\* empty and the agent got the prompt that names no company.
C30_NoSignificantChange ==
  daily_update.prompt # "none" =>
     /\ \A i \in 1..Len(MarketCompanies) :
          /\ MARKET_DATA[i] \in {(k - 7) * 50 : k \in 0..14}
          /\ MARKET_DATA[i] >= -350
          /\ MARKET_DATA[i] <= 350
          /\ Abs(MARKET_DATA[i]) < 500
          /\ \E q \in (0 - MaxDay)..MaxDay :
               /\ daily_update.day_number * 7 + Ord(MarketCompanies[i][1])
                    = 15 * q + (MARKET_DATA[i] \div 50 + 7)
     /\ daily_update.significant_changes = <<>>
     /\ daily_update.prompt = "plain"

\* C30's case: an update for a negative day_number on which a company's
\* change is 3.5, the largest the formula gives.
C30_Witness ==
  /\ daily_update.prompt = "plain"
  /\ daily_update.day_number < 0
  /\ \E i \in 1..Len(MarketCompanies) : MARKET_DATA[i] = 350

====
